---- MODULE Spec2Model ----
(***************************************************************************)
(* Model of tools/validate_test_vectors.py of helioselene: the reference   *)
(* arithmetic (square roots, point codec, polynomial ring) as operators    *)
(* computed the way the Python code computes them, and the verification    *)
(* harness (TestRunner and the validate_* sections) as a state machine.    *)
(*                                                                         *)
(* Scaling.  The code works on 32-byte little-endian strings of 8-bit      *)
(* bytes and on 255-bit prime moduli.  The model keeps the byte-string     *)
(* layout (little-endian digits, parity flag in the top bit of the last    *)
(* byte) and scales the sizes down: ByteBits bits per byte, EncLen bytes   *)
(* per string, small prime moduli.                                         *)
(*                                                                         *)
(* Python values.  None is <<>>, an Optional[int] holding r is <<r>>, an   *)
(* Optional[Tuple[int,int]] holding (x, y) is <<x, y>>.  A raised          *)
(* exception is the one-element tuple holding its name.                    *)
(***************************************************************************)
EXTENDS Integers, Sequences, FiniteSets, TLC

VARIABLES
    passed, failed, skipped,  \* TestRunner counters
    calls,                    \* number of ok/fail/skip calls made (history)
    pc,                       \* position of main: "start", "run", "done", "crashed"
    exitStatus,               \* value handed to sys.exit, <<>> while running
    sec,                      \* index of the category loop main is in
    params,                   \* curve parameters read from the document
    last,                     \* the vector of the current loop iteration and its outcome
    stage, arg, out           \* pure-function runs: position, inputs, results

vars == <<passed, failed, skipped, calls, pc, exitStatus, sec, params, last,
          stage, arg, out>>

harnessVars == <<passed, failed, skipped, calls, pc, exitStatus, sec, params, last>>
pureVars == <<stage, arg, out>>

----------------------------------------------------------------------------
(* Bounds of the model *)

ByteBits == 2        \* bits per byte (8 in the code)
EncLen == 3          \* bytes per encoded string (32 in the code)
MaxPrime == 41       \* largest modulus handed to mod_sqrt
MaxCurveMod == 17    \* largest field modulus of a curve
MaxLen == 2          \* longest coefficient list of a polynomial operand
MaxPolyMod == 5      \* largest modulus of the polynomial ring
MaxVectors == 3      \* verdicts recorded before the document runs out of vectors
MaxRaw == 7          \* largest integer a sampled vector field holds
MaxSmall == 3        \* largest integer a sampled second operand holds
MaxBatch == 2        \* longest list of a batch_invert vector
MaxPts == 3          \* most samples of an interpolation
MaxRoots == 3        \* most roots handed to poly_from_roots
MaxFieldMod == 7     \* largest modulus of the field-arithmetic runs
MaxInputs == 3       \* longest list handed to the batch recomputation

ByteBase == 2 ^ ByteBits
TopBit == ByteBase \div 2
XBound == TopBit * ByteBase ^ (EncLen - 1)   \* 2^255 in the code

None == <<>>
Some(v) == <<v>>

IsPrime(p) == p >= 2 /\ \A d \in 2..(p - 1) : p % d /= 0

----------------------------------------------------------------------------
(* Python built-ins *)

\* pow(b, e, p) with e >= 0
RECURSIVE PowMod(_, _, _)
PowMod(b, e, p) ==
    IF e = 0 THEN 1 % p
    ELSE IF e % 2 = 1 THEN ((b % p) * PowMod(b, e - 1, p)) % p
    ELSE LET h == PowMod(b, e \div 2, p) IN (h * h) % p

ValueError == <<"ValueError">>
OverflowError == <<"OverflowError">>
IndexError == <<"IndexError">>

\* pow(b, -1, p) raises ValueError unless b is invertible mod p, and otherwise
\* returns the inverse in [0, p)
Invertible(b, p) == \E r \in 0..(p - 1) : (b * r) % p = 1 % p
ModInv(b, p) == CHOOSE r \in 0..(p - 1) : (b * r) % p = 1 % p

\* 1 << k
Shl1(k) == 2 ^ k

----------------------------------------------------------------------------
(* Byte strings: a string of EncLen bytes is a sequence of digits, index 1 the
   least significant (bytes.fromhex of the hex text). *)

Byte == 0..(ByteBase - 1)
ByteStrings == [1..EncLen -> Byte]
ZeroBytes == [i \in 1..EncLen |-> 0]

RECURSIVE IntFromLE(_, _)
IntFromLE(raw, i) ==
    IF i > Len(raw) THEN 0 ELSE raw[i] + ByteBase * IntFromLE(raw, i + 1)

from_le_hex(h) == IntFromLE(h, 1)

\* n.to_bytes(length, 'little') raises OverflowError when n does not fit
Overflows(n) == n < 0 \/ n >= ByteBase ^ EncLen
to_le_bytes(n, length) == [i \in 1..length |-> (n \div (ByteBase ^ (i - 1))) % ByteBase]
to_le_hex(n) == IF Overflows(n) THEN OverflowError ELSE to_le_bytes(n, EncLen)

----------------------------------------------------------------------------
(* mod_sqrt *)

sqrt_3mod4(n, p) == PowMod(n, (p + 1) \div 4, p)

\* A variant of the 5 mod 8 branch that multiplies by i + 1 in place of i - 1
sqrt_5mod8_bad(n, p) ==
    LET v == PowMod(2 * n, (p - 5) \div 8, p)
        i == (2 * n * v * v) % p
    IN  (n * v * (i + 1)) % p

sqrt_5mod8(n, p) ==
    LET v == PowMod(2 * n, (p - 5) \div 8, p)
        i == (2 * n * v * v) % p
    IN  (n * v * (i - 1)) % p

\* while q_val % 2 == 0: q_val //= 2; s += 1
RECURSIVE ts_factor(_, _)
ts_factor(q_val, s) ==
    IF q_val % 2 = 0 THEN ts_factor(q_val \div 2, s + 1) ELSE <<q_val, s>>

\* while pow(z, (p - 1) // 2, p) != p - 1: z += 1
RECURSIVE ts_find_z(_, _)
ts_find_z(z, p) ==
    IF PowMod(z, (p - 1) \div 2, p) /= p - 1 THEN ts_find_z(z + 1, p) ELSE z

\* while tmp != 1: tmp = (tmp * tmp) % p; i += 1
RECURSIVE ts_inner(_, _, _)
ts_inner(i, tmp, p) ==
    IF tmp /= 1 THEN ts_inner(i + 1, (tmp * tmp) % p, p) ELSE i

\* while True: ...
RECURSIVE ts_loop(_, _, _, _, _)
ts_loop(m, c, t, r, p) ==
    IF t = 1 THEN r
    ELSE LET i == ts_inner(1, (t * t) % p, p)
             b == PowMod(c, Shl1(m - i - 1), p)
         IN  ts_loop(i, (b * b) % p, (t * b * b) % p, (r * b) % p, p)

tonelli_shanks(n, p) ==
    LET f == ts_factor(p - 1, 0)
        q_val == f[1]
        s == f[2]
        z == ts_find_z(2, p)
    IN  ts_loop(s, PowMod(z, q_val, p), PowMod(n, q_val, p),
                PowMod(n, (q_val + 1) \div 2, p), p)

mod_sqrt(n0, p) ==
    LET n == n0 % p
    IN  IF n = 0 THEN Some(0)
        ELSE IF PowMod(n, (p - 1) \div 2, p) /= 1 THEN None
        ELSE IF p % 4 = 3 THEN Some(sqrt_3mod4(n, p))
        ELSE IF p % 8 = 5 THEN Some(sqrt_5mod8(n, p))
        ELSE Some(tonelli_shanks(n, p))

----------------------------------------------------------------------------
(* Square-root runs: the inputs are drawn by InitSqrt, CallModSqrt applies
   mod_sqrt. *)

SqrtPrimes == {p \in 3..MaxPrime : IsPrime(p)}

HarnessIdle ==
    /\ passed = 0 /\ failed = 0 /\ skipped = 0 /\ calls = 0
    /\ pc = "idle" /\ exitStatus = None /\ sec = <<0, 0>>
    /\ params = <<>> /\ last = <<>>

InitSqrt ==
    /\ HarnessIdle
    /\ stage = "input"
    /\ out = <<>>
    /\ \E p \in SqrtPrimes : \E n \in (0 - p)..(2 * p) : arg = [fn |-> "mod_sqrt", n |-> n, p |-> p]

CallModSqrt ==
    /\ stage = "input"
    /\ arg.fn = "mod_sqrt"
    /\ out' = <<mod_sqrt(arg.n, arg.p)>>
    /\ stage' = "returned"
    /\ UNCHANGED <<arg, harnessVars>>

NextSqrt == CallModSqrt

SpecSqrt == InitSqrt /\ [][NextSqrt]_vars

\* C9: for a prime p of any of the three branches and any integer n, mod_sqrt
\* returns None exactly when n is a quadratic non-residue mod p, and otherwise
\* a value r with 0 <= r < p and r*r = n (mod p).
HasRoot(n, p) == \E r \in 0..(p - 1) : (r * r) % p = n % p

C9_ModSqrtContract ==
    (stage = "returned" /\ arg.fn = "mod_sqrt") =>
        LET res == out[1]
        IN  /\ (res = None) <=> ~HasRoot(arg.n, arg.p)
            /\ res /= None =>
                 /\ res[1] \in 0..(arg.p - 1)
                 /\ (res[1] * res[1]) % arg.p = arg.n % arg.p

\* A residue was rooted by the Tonelli-Shanks branch with a non-trivial loop,
\* by the 5 mod 8 branch and by the 3 mod 4 branch (one witness per state).
C9_Witness ==
    /\ stage = "returned" /\ arg.fn = "mod_sqrt"
    /\ arg.p % 8 = 1 /\ arg.n < 0
    /\ out[1] /= None /\ out[1][1] > 1
    /\ PowMod(arg.n, ts_factor(arg.p - 1, 0)[1], arg.p) /= 1

----------------------------------------------------------------------------
(* Point codec *)

AllZero(raw) == \A i \in 1..Len(raw) : raw[i] = 0

\* y_parity = (raw[31] >> 7) & 1
ParityBit(raw) == (raw[Len(raw)] \div TopBit) % 2

\* x_bytes[31] &= 0x7F; x = int.from_bytes(x_bytes, 'little')
ClearTop(raw) == [raw EXCEPT ![Len(raw)] = raw[Len(raw)] % TopBit]
XOf(raw) == IntFromLE(ClearTop(raw), 1)

curve_rhs(x, p_field, a, b_curve) == (PowMod(x, 3, p_field) + a * x + b_curve) % p_field

\* A variant of the root selection that never flips
select_root_noflip(y, y_parity, p_field) == y

\* if (y & 1) != y_parity: y = p_field - y
select_root(y, y_parity, p_field) == IF y % 2 /= y_parity THEN p_field - y ELSE y

decode_point_bytes(h, p_field, a, b_curve) ==
    IF AllZero(h) THEN None
    ELSE LET y_parity == ParityBit(h)
             x == XOf(h)
         IN  IF x >= p_field THEN None
             ELSE LET y == mod_sqrt(curve_rhs(x, p_field, a, b_curve), p_field)
                  IN  IF y = None THEN None
                      ELSE <<x, select_root(y[1], y_parity, p_field)>>

\* x_bytes[31] |= 0x80
SetTop(raw) ==
    IF (raw[Len(raw)] \div TopBit) % 2 = 1 THEN raw
    ELSE [raw EXCEPT ![Len(raw)] = raw[Len(raw)] + TopBit]

encode_point(x, y, p_field) ==
    LET x_bytes == to_le_hex(x)
    IN  IF Overflows(x) THEN OverflowError
        ELSE IF y % 2 = 1 THEN SetTop(x_bytes) ELSE x_bytes

(* Points of the curve library: the point at infinity, or affine (x, y). *)
Infinity == [is_infinity |-> TRUE]
Affine(x, y) == [is_infinity |-> FALSE, x |-> x, y |-> y]

\* validate_point_section.decode
decode(h, p_field, a, b_val) ==
    LET pt == decode_point_bytes(h, p_field, a, b_val)
    IN  IF pt = None THEN Infinity ELSE Affine(pt[1], pt[2])

\* validate_point_section.encode
encode(pt, p_field) ==
    IF pt.is_infinity THEN ZeroBytes ELSE encode_point(pt.x, pt.y, p_field)

----------------------------------------------------------------------------
(* Codec runs: InitCodec draws a curve and either an encoding or a point;
   the actions decode and encode it in turn. *)

CurvePrimes == {p \in 3..MaxCurveMod : IsPrime(p) /\ p < XBound}
CurveAs == {0 - 3, 0, 1}
\* short-Weierstrass curves y^2 = x^3 + a*x + b over F_M, non-singular
NonSingular(c) == (4 * c.a * c.a * c.a + 27 * c.b * c.b) % c.M /= 0
Curves == {c \in [M : CurvePrimes, a : CurveAs, b : 0..MaxCurveMod] : c.b < c.M /\ NonSingular(c)}

OnCurve(x, y, c) == (y * y) % c.M = curve_rhs(x, c.M, c.a, c.b)
AffinePoints(c) == {Affine(x, y) : <<x, y>> \in {xy \in (0..(c.M - 1)) \X (0..(c.M - 1)) : OnCurve(xy[1], xy[2], c)}}
GroupPoints(c) == {Infinity} \cup AffinePoints(c)

InitCodec ==
    /\ HarnessIdle
    /\ stage = "input"
    /\ out = <<>>
    /\ \E c \in Curves :
         \/ \E h \in ByteStrings : arg = [fn |-> "decode", curve |-> c, h |-> h]
         \/ \E pt \in GroupPoints(c) : arg = [fn |-> "encode", curve |-> c, pt |-> pt]

\* pt = decode_point_bytes(h, p_field, a, b_val)
DecodeBytes ==
    /\ stage = "input" /\ arg.fn = "decode"
    /\ out' = <<decode_point_bytes(arg.h, arg.curve.M, arg.curve.a, arg.curve.b)>>
    /\ stage' = "decoded"
    /\ UNCHANGED <<arg, harnessVars>>

\* encode(decode(h))
ReEncode ==
    /\ stage = "decoded"
    /\ out' = Append(out, encode(decode(arg.h, arg.curve.M, arg.curve.a, arg.curve.b), arg.curve.M))
    /\ stage' = "reencoded"
    /\ UNCHANGED <<arg, harnessVars>>

\* encode(P)
EncodePoint ==
    /\ stage = "input" /\ arg.fn = "encode"
    /\ out' = <<encode(arg.pt, arg.curve.M)>>
    /\ stage' = "encoded"
    /\ UNCHANGED <<arg, harnessVars>>

\* decode(encode(P))
DecodeEncoded ==
    /\ stage = "encoded"
    /\ out' = Append(out, decode(out[1], arg.curve.M, arg.curve.a, arg.curve.b))
    /\ stage' = "redecoded"
    /\ UNCHANGED <<arg, harnessVars>>

\* encode(decode(encode(P)))
EncodeAgain ==
    /\ stage = "redecoded"
    /\ out' = Append(out, encode(out[2], arg.curve.M))
    /\ stage' = "stable"
    /\ UNCHANGED <<arg, harnessVars>>

NextCodec == DecodeBytes \/ ReEncode \/ EncodePoint \/ DecodeEncoded \/ EncodeAgain

SpecCodec == InitCodec /\ [][NextCodec]_vars

DecodeCase == stage \in {"decoded", "reencoded"} /\ arg.fn = "decode"
RhsOfInput == curve_rhs(XOf(arg.h), arg.curve.M, arg.curve.a, arg.curve.b)

\* C6: every encoding that is not all-zero, with x < M after clearing the top
\* bit and x^3 + a*x + b a square or zero mod M, decodes to a pair (x, y) of
\* field elements: 0 <= x < M, 0 <= y < M, y^2 = x^3 + a*x + b (mod M) and the
\* parity of y equal to the encoded top bit.
C6_DecodeGivesFieldElements ==
    (/\ DecodeCase
     /\ ~AllZero(arg.h)
     /\ XOf(arg.h) < arg.curve.M
     /\ HasRoot(RhsOfInput, arg.curve.M)) =>
        /\ out[1] /= None
        /\ out[1][1] = XOf(arg.h)
        /\ out[1][1] \in 0..(arg.curve.M - 1)
        /\ out[1][2] \in 0..(arg.curve.M - 1)
        /\ (out[1][2] * out[1][2]) % arg.curve.M = RhsOfInput
        /\ out[1][2] % 2 = ParityBit(arg.h)

\* C7: an encoding that decodes successfully (all-zero, or x < M with a root
\* of x^3 + a*x + b) is given back exactly by encoding the decoded point; and
\* for the identity and every on-curve affine point P,
\* encode(decode(encode(P))) = encode(P).
C7_CodecRoundTrip ==
    /\ (stage = "reencoded" /\ (AllZero(arg.h) \/ out[1] /= None)) => out[2] = arg.h
    /\ stage = "stable" => out[3] = out[1]

\* A successful decode that had to replace the root by M - root, re-encoded.
C7_Witness ==
    /\ stage = "reencoded"
    /\ out[1] /= None
    /\ ParityBit(arg.h) = 1
    /\ out[1][2] \in 1..(arg.curve.M - 1)
    /\ mod_sqrt(RhsOfInput, arg.curve.M) /= Some(out[1][2])
    /\ out[2] = arg.h

\* C8: encode is injective over the identity and the on-curve affine points:
\* no other point of the curve has the encoding of the encoded point.
C8_EncodeInjective ==
    (stage = "encoded" /\ arg.fn = "encode") =>
        \A other \in GroupPoints(arg.curve) :
            encode(other, arg.curve.M) = out[1] => other = arg.pt

----------------------------------------------------------------------------
(* Polynomial ring: a polynomial is the sequence of its coefficients, the
   code's index i at position i + 1. *)

Zeros(n) == [i \in 1..n |-> 0]
Max(m, n) == IF m >= n THEN m ELSE n

\* while len(result) > 1 and result[-1] == 0: result.pop()
RECURSIVE strip(_)
strip(result) ==
    IF Len(result) > 1 /\ result[Len(result)] = 0
    THEN strip(SubSeq(result, 1, Len(result) - 1))
    ELSE result

\* for i, ai in enumerate(a): for j, bj in enumerate(b):
\*     result[i + j] = (result[i + j] + ai * bj) % p
RECURSIVE mul_loop(_, _, _, _, _, _)
mul_loop(a, b, p, i, j, result) ==
    IF i > Len(a) THEN result
    ELSE IF j > Len(b) THEN mul_loop(a, b, p, i + 1, 1, result)
    ELSE mul_loop(a, b, p, i, j + 1,
                  [result EXCEPT ![i + j - 1] = (result[i + j - 1] + a[i] * b[j]) % p])

\* A variant of the product that strips trailing zero coefficients
poly_mul_stripped(a, b, p) ==
    IF a = <<>> \/ b = <<>> THEN <<0>>
    ELSE strip(mul_loop(a, b, p, 1, 1, Zeros(Len(a) + Len(b) - 1)))

poly_mul(a, b, p) ==
    IF a = <<>> \/ b = <<>> THEN <<0>>
    ELSE mul_loop(a, b, p, 1, 1, Zeros(Len(a) + Len(b) - 1))

\* for i in range(len(v)): result[i] = (result[i] + sign * v[i]) % p
RECURSIVE acc_loop(_, _, _, _, _)
acc_loop(v, sign, p, i, result) ==
    IF i > Len(v) THEN result
    ELSE acc_loop(v, sign, p, i + 1, [result EXCEPT ![i] = (result[i] + sign * v[i]) % p])

poly_add(a, b, p) ==
    strip(acc_loop(b, 1, p, 1, acc_loop(a, 1, p, 1, Zeros(Max(Len(a), Len(b))))))

poly_sub(a, b, p) ==
    strip(acc_loop(b, 0 - 1, p, 1, acc_loop(a, 1, p, 1, Zeros(Max(Len(a), Len(b))))))

\* for j in range(db + 1): a[i + j] = (a[i + j] - q[i] * b[j]) % p
RECURSIVE div_inner(_, _, _, _, _, _)
div_inner(a, b, p, qi, i, j) ==
    IF j > Len(b) THEN a
    ELSE div_inner([a EXCEPT ![i + j - 1] = (a[i + j - 1] - qi * b[j]) % p], b, p, qi, i, j + 1)

\* A variant of the quotient coefficient that multiplies by b's leading coefficient itself
quot_coeff_noinv(a_lead, b_lead_inv, b_lead, p) == (a_lead * b_lead) % p

\* q[i] = (a[i + db] * b_lead_inv) % p
quot_coeff(a_lead, b_lead_inv, b_lead, p) == (a_lead * b_lead_inv) % p

\* for i in range(da - db, -1, -1): ...     (i is the position in q, from 1)
RECURSIVE div_outer(_, _, _, _, _, _)
div_outer(a, b, p, b_lead_inv, i, q) ==
    IF i < 1 THEN <<q, a>>
    ELSE LET qi == quot_coeff(a[i + Len(b) - 1], b_lead_inv, b[Len(b)], p)
         IN  div_outer(div_inner(a, b, p, qi, i, 1), b, p, b_lead_inv, i - 1,
                       [q EXCEPT ![i] = qi])

\* A variant of the early return that reduces the remainder's coefficients
short_remainder_reduced(a, p) == [i \in 1..Len(a) |-> a[i] % p]

\* if da < db: return [0], a
short_remainder(a, p) == a

\* a = list(a): the function works on a copy, the caller's list stays as it was
caller_numerator(a, b, p) == a

poly_divmod(a, b, p) ==
    LET db == Len(b) - 1
        da == Len(a) - 1
    IN  IF da < db THEN << <<0>>, short_remainder(a, p) >>
        ELSE IF b = <<>> THEN IndexError
        ELSE IF ~Invertible(b[Len(b)], p) THEN ValueError
        ELSE LET done == div_outer(a, b, p, ModInv(b[Len(b)], p), da - db + 1,
                                   Zeros(da - db + 1))
                 rem == IF db > 0 THEN SubSeq(done[2], 1, db) ELSE <<0>>
             IN  << strip(done[1]), strip(rem) >>

----------------------------------------------------------------------------
(* Polynomial runs: InitPoly draws a modulus and the operands, the actions
   apply the operations to them. *)

PolyPrimes == {p \in 2..MaxPolyMod : IsPrime(p)}
CoeffLists(M, n) == UNION {[1..k -> 0..(M - 1)] : k \in 1..n}
Canonical(f) == Len(f) >= 1 /\ (Len(f) = 1 \/ f[Len(f)] /= 0)
InField(f, M) == \A i \in 1..Len(f) : f[i] \in 0..(M - 1)
CanonPolys(M, n) == {f \in CoeffLists(M, n) : Canonical(f)}

InitPoly ==
    /\ HarnessIdle
    /\ stage = "input"
    /\ out = <<>>
    /\ \E M \in PolyPrimes : \E a, b, c \in CanonPolys(M, MaxLen) :
         /\ b /= <<0>>
         /\ c = <<0>> \/ Len(c) < Len(b)
         /\ arg = [fn |-> "divmod", M |-> M, a |-> a, b |-> b, c |-> c]

\* num = poly_add(poly_mul(a, b), c)
BuildNumerator ==
    /\ stage = "input" /\ arg.fn = "divmod"
    /\ out' = <<poly_add(poly_mul(arg.a, arg.b, arg.M), arg.c, arg.M)>>
    /\ stage' = "built"
    /\ UNCHANGED <<arg, harnessVars>>

\* poly_divmod(num, b)
DivideBack ==
    /\ stage = "built"
    /\ out' = Append(out, poly_divmod(out[1], arg.b, arg.M))
    /\ stage' = "divided"
    /\ UNCHANGED <<arg, harnessVars>>

NextPoly == BuildNumerator \/ DivideBack

SpecPoly == InitPoly /\ [][NextPoly]_vars

\* C10: for canonical a, b over the same prime M with b not the zero
\* polynomial, and canonical c that is [0] or of degree below deg(b),
\* poly_divmod(poly_add(poly_mul(a, b), c), b) returns quotient a and
\* remainder c.
C10_DivmodInvertsMul ==
    (stage = "divided" /\ arg.fn = "divmod") => out[2] = <<arg.a, arg.c>>

\* A division with two quotient steps, a non-zero remainder and a leading
\* coefficient of b that is not its own inverse.
C10_Witness ==
    /\ stage = "divided" /\ arg.fn = "divmod"
    /\ Len(arg.a) = 2 /\ Len(arg.b) = 2 /\ arg.c /= <<0>>
    /\ (arg.b[2] * arg.b[2]) % arg.M /= 1
    /\ out[2] = <<arg.a, arg.c>>

----------------------------------------------------------------------------
(* Polynomial evaluation, interpolation and construction from roots *)

\* for c in reversed(coeffs): result = (result * x + c) % p
RECURSIVE eval_loop(_, _, _, _, _)
eval_loop(coeffs, x, p, k, result) ==
    IF k < 1 THEN result
    ELSE eval_loop(coeffs, x, p, k - 1, (result * x + coeffs[k]) % p)

\* A variant of the evaluation that takes the coefficients lowest degree first
poly_eval_forward(coeffs, x, p) ==
    eval_loop([i \in 1..Len(coeffs) |-> coeffs[Len(coeffs) + 1 - i]], x, p, Len(coeffs), 0)

poly_eval(coeffs, x, p) == eval_loop(coeffs, x, p, Len(coeffs), 0)

\* A variant of the Lagrange factor with the sign of its constant term dropped
basis_term_pos(xj, denom, p) == <<(xj * denom) % p, denom>>

\* term = [(-xs[j] * denom) % p, denom]
basis_term(xj, denom, p) == <<(0 - xj * denom) % p, denom>>

\* for j in range(n): if i == j: continue; denom = pow(xs[i] - xs[j], -1, p); ...
RECURSIVE basis_loop(_, _, _, _, _)
basis_loop(xs, p, i, j, basis) ==
    IF j > Len(xs) THEN basis
    ELSE IF i = j THEN basis_loop(xs, p, i, j + 1, basis)
    ELSE basis_loop(xs, p, i, j + 1,
                    poly_mul(basis, basis_term(xs[j], ModInv(xs[i] - xs[j], p), p), p))

\* for k in range(len(basis)): if k < len(result): result[k] = (result[k] + ys[i] * basis[k]) % p
RECURSIVE scale_loop(_, _, _, _, _)
scale_loop(result, yi, basis, p, k) ==
    IF k > Len(basis) THEN result
    ELSE IF k <= Len(result)
    THEN scale_loop([result EXCEPT ![k] = (result[k] + yi * basis[k]) % p], yi, basis, p, k + 1)
    ELSE scale_loop(result, yi, basis, p, k + 1)

\* for i in range(n): ...
RECURSIVE interp_loop(_, _, _, _, _)
interp_loop(xs, ys, p, i, result) ==
    IF i > Len(xs) THEN result
    ELSE interp_loop(xs, ys, p, i + 1,
                     scale_loop(result, ys[i], basis_loop(xs, p, i, 1, <<1>>), p, 1))

\* pow(xs[i] - xs[j], -1, p) raises ValueError for some pair i /= j
interpolate_raises(xs, p) ==
    \E i, j \in 1..Len(xs) : i /= j /\ ~Invertible(xs[i] - xs[j], p)

poly_interpolate(xs, ys, p) ==
    IF interpolate_raises(xs, p) THEN ValueError
    ELSE strip(interp_loop(xs, ys, p, 1, Zeros(Len(xs))))

\* A variant of the root step that adds c * r
root_coeff_plus(low, c, r, p) == (low + c * r) % p

\* new[i] = (new[i] - c * r) % p
root_coeff(low, c, r, p) == (low - c * r) % p

\* for i, c in enumerate(result): new[i] = ...; new[i + 1] = (new[i + 1] + c) % p
RECURSIVE root_inner(_, _, _, _, _)
root_inner(result, r, p, i, new) ==
    IF i > Len(result) THEN new
    ELSE root_inner(result, r, p, i + 1,
                    [new EXCEPT ![i] = root_coeff(new[i], result[i], r, p),
                                ![i + 1] = (new[i + 1] + result[i]) % p])

\* for r in roots: new = [0] * (len(result) + 1); ...; result = new
RECURSIVE root_loop(_, _, _, _)
root_loop(roots, p, k, result) ==
    IF k > Len(roots) THEN result
    ELSE root_loop(roots, p, k + 1,
                   root_inner(result, roots[k], p, 1, Zeros(Len(result) + 1)))

poly_from_roots(roots, p) == root_loop(roots, p, 1, <<1>>)

----------------------------------------------------------------------------
(* Polynomial-ring runs: InitRing draws a modulus and the inputs of one
   operation, the actions apply it. *)

Distinct(xs, M) == \A i, j \in 1..Len(xs) : i /= j => xs[i] % M /= xs[j] % M
SampleLists(M, n) == UNION {[1..k -> 0..(M - 1)] : k \in 1..n}

\* Lists of up to n roots, M itself (0 unreduced) among them
RootLists(M, n) == UNION {[1..k -> 0..M] : k \in 0..n}

\* Coefficient sequences of any shape: empty, with trailing zeros, with M
\* itself (0 unreduced) as a coefficient
RawLists(M, n) == UNION {[1..k -> 0..M] : k \in 0..n}

\* Coefficient sequences of any shape with any integers: negative, M itself
AnyLists(M, n) == UNION {[1..k -> (0 - 1)..M] : k \in 0..n}

InitRing ==
    /\ HarnessIdle
    /\ stage = "input"
    /\ out = <<>>
    /\ \E M \in PolyPrimes :
         \/ \E xs, ys \in SampleLists(M, MaxPts) :
              /\ Len(xs) = Len(ys)
              /\ Distinct(xs, M)
              /\ arg = [fn |-> "interpolate", M |-> M, xs |-> xs, ys |-> ys]
         \/ \E roots \in RootLists(M, MaxRoots) :
              arg = [fn |-> "from_roots", M |-> M, roots |-> roots]
         \/ \E a, b \in RawLists(M, MaxLen) :
              arg = [fn |-> "binary", M |-> M, a |-> a, b |-> b]
         \/ \E coeffs \in AnyLists(M, MaxLen + 1) : \E x \in (0 - 1)..(M + 1) :
              arg = [fn |-> "eval", M |-> M, coeffs |-> coeffs, x |-> x]

\* poly_interpolate(xs, ys, p)
Interpolate ==
    /\ stage = "input" /\ arg.fn = "interpolate"
    /\ out' = <<poly_interpolate(arg.xs, arg.ys, arg.M)>>
    /\ stage' = "interpolated"
    /\ UNCHANGED <<arg, harnessVars>>

\* poly_eval of the interpolant at each sample
EvaluateSamples ==
    /\ stage = "interpolated"
    /\ out' = Append(out, [i \in 1..Len(arg.xs) |-> poly_eval(out[1], arg.xs[i], arg.M)])
    /\ stage' = "evaluated"
    /\ UNCHANGED <<arg, harnessVars>>

\* poly_from_roots(roots, p)
FromRoots ==
    /\ stage = "input" /\ arg.fn = "from_roots"
    /\ out' = <<poly_from_roots(arg.roots, arg.M)>>
    /\ stage' = "rooted"
    /\ UNCHANGED <<arg, harnessVars>>

\* poly_eval of the monic polynomial at each root and at each field element
EvaluateRoots ==
    /\ stage = "rooted"
    /\ out' = Append(out, [atRoots |-> [i \in 1..Len(arg.roots) |->
                                          poly_eval(out[1], arg.roots[i], arg.M)],
                           atField |-> [x \in 0..(arg.M - 1) |->
                                          poly_eval(out[1], x, arg.M)]])
    /\ stage' = "rootsEvaluated"
    /\ UNCHANGED <<arg, harnessVars>>

\* poly_mul(a, b, p)
Multiply ==
    /\ stage = "input" /\ arg.fn = "binary"
    /\ out' = <<poly_mul(arg.a, arg.b, arg.M)>>
    /\ stage' = "product"
    /\ UNCHANGED <<arg, harnessVars>>

\* poly_add(a, b, p) and poly_sub(a, b, p)
AddSub ==
    /\ stage = "input" /\ arg.fn = "binary"
    /\ out' = [add |-> poly_add(arg.a, arg.b, arg.M), sub |-> poly_sub(arg.a, arg.b, arg.M)]
    /\ stage' = "sums"
    /\ UNCHANGED <<arg, harnessVars>>

\* poly_divmod(a, b, p) with len(b) > len(a)
DivideShort ==
    /\ stage = "input" /\ arg.fn = "binary"
    /\ Len(arg.b) > Len(arg.a)
    /\ out' = poly_divmod(arg.a, arg.b, arg.M)
    /\ arg' = [arg EXCEPT !.a = caller_numerator(arg.a, arg.b, arg.M)]
    /\ stage' = "shortDivided"
    /\ UNCHANGED harnessVars

\* poly_eval(coeffs, x, p)
Evaluate ==
    /\ stage = "input" /\ arg.fn = "eval"
    /\ out' = <<poly_eval(arg.coeffs, arg.x, arg.M)>>
    /\ stage' = "value"
    /\ UNCHANGED <<arg, harnessVars>>

NextRing ==
    \/ Evaluate
    \/ Interpolate
    \/ EvaluateSamples
    \/ FromRoots
    \/ EvaluateRoots
    \/ Multiply
    \/ AddSub
    \/ DivideShort

SpecRing == InitRing /\ [][NextRing]_vars

\* C11: for pairwise distinct samples xs mod a prime M and ys of the same
\* length n >= 1, the polynomial poly_interpolate returns has at most n
\* coefficients and poly_eval of it at xs[i] is ys[i] mod M, for every i.
C11_InterpolateReproducesSamples ==
    /\ (stage \in {"interpolated", "evaluated"} /\ arg.fn = "interpolate") =>
          /\ ~interpolate_raises(arg.xs, arg.M)
          /\ Len(out[1]) <= Len(arg.xs)
    /\ (stage = "evaluated" /\ arg.fn = "interpolate") =>
          out[2] = [i \in 1..Len(arg.xs) |-> arg.ys[i] % arg.M]

\* An interpolation through three samples with a non-zero first abscissa, whose
\* interpolant has degree two.
C11_Witness ==
    /\ stage = "evaluated" /\ arg.fn = "interpolate"
    /\ Len(arg.xs) = 3 /\ arg.xs[1] /= 0 /\ Len(out[1]) = 3
    /\ out[2] = arg.ys

\* The product of the factors (x - roots[i]), i <= k, by convolution
RECURSIVE LinearProduct(_, _, _)
LinearProduct(roots, M, k) ==
    IF k = 0 THEN <<1>>
    ELSE LET f == LinearProduct(roots, M, k - 1)
             r == roots[k]
         IN  [i \in 1..(k + 1) |->
                ((IF i > 1 THEN f[i - 1] ELSE 0) - (IF i <= k THEN r * f[i] ELSE 0)) % M]

\* C13: for every list of n >= 0 roots and prime M, poly_from_roots returns
\* n + 1 coefficients in [0, M) with leading coefficient 1, those of the
\* product of the (x - ri); it evaluates to 0 at every root and, for n = 1,
\* to (x - r) mod M at every x.
C13_FromRootsIsMonicProduct ==
    /\ (stage \in {"rooted", "rootsEvaluated"} /\ arg.fn = "from_roots") =>
          /\ Len(out[1]) = Len(arg.roots) + 1
          /\ InField(out[1], arg.M)
          /\ out[1][Len(out[1])] = 1
          /\ out[1] = LinearProduct(arg.roots, arg.M, Len(arg.roots))
    /\ (stage = "rootsEvaluated" /\ arg.fn = "from_roots") =>
          /\ \A i \in 1..Len(arg.roots) : out[2].atRoots[i] = 0
          /\ Len(arg.roots) = 1 =>
               \A x \in 0..(arg.M - 1) : out[2].atField[x] = (x - arg.roots[1]) % arg.M

\* A monic cubic built from three distinct non-zero roots and evaluated.
C13_Witness ==
    /\ stage = "rootsEvaluated" /\ arg.fn = "from_roots"
    /\ Len(arg.roots) = 3
    /\ Cardinality({arg.roots[i] % arg.M : i \in 1..3}) = 3
    /\ \A i \in 1..3 : arg.roots[i] % arg.M /= 0
    /\ Len(out[1]) = 4
    /\ out[2].atRoots = <<0, 0, 0>>

\* C17: poly_divmod with a denominator longer than the numerator returns
\* quotient [0] and the numerator itself as remainder, coefficient for
\* coefficient, and leaves the caller's numerator list as it was.
C17_ShortDivision ==
    /\ [](stage = "shortDivided" => out = << <<0>>, arg.a >>)
    /\ [][stage' = "shortDivided" => arg' = arg]_vars

\* A short division of a numerator with an unreduced coefficient by a
\* denominator whose leading coefficient is 0.
C17_Witness ==
    /\ stage = "shortDivided"
    /\ Len(arg.a) = 1 /\ arg.a[1] = arg.M
    /\ Len(arg.b) = 2 /\ arg.b[2] = 0
    /\ out = << <<0>>, arg.a >>

\* sum of a[i] * b[k + 1 - i] over the positions i..Len(a) that have a partner in b
RECURSIVE ConvSum(_, _, _, _)
ConvSum(a, b, k, i) ==
    IF i > Len(a) THEN 0
    ELSE (IF k + 1 - i \in 1..Len(b) THEN a[i] * b[k + 1 - i] ELSE 0) + ConvSum(a, b, k, i + 1)

\* C18: poly_mul returns [0] when an operand is the empty sequence, and
\* otherwise len(a) + len(b) - 1 coefficients, coefficient k being the sum
\* over i + j = k of a[i] * b[j] mod M.
C18_MulIsConvolution ==
    (stage = "product" /\ arg.fn = "binary") =>
        IF arg.a = <<>> \/ arg.b = <<>> THEN out[1] = <<0>>
        ELSE out[1] = [k \in 1..(Len(arg.a) + Len(arg.b) - 1) |->
                          ConvSum(arg.a, arg.b, k, 1) % arg.M]

\* A product of two linear polynomials whose leading coefficient vanishes mod M.
C18_Witness ==
    /\ stage = "product" /\ arg.fn = "binary"
    /\ Len(arg.a) = 2 /\ Len(arg.b) = 2
    /\ Len(out[1]) = 3 /\ out[1][3] = 0 /\ out[1][2] /= 0

Coeff(f, i) == IF i \in 1..Len(f) THEN f[i] ELSE 0
PaddedSum(a, b, sign, M) ==
    [i \in 1..Max(Len(a), Len(b)) |-> (Coeff(a, i) + sign * Coeff(b, i)) % M]

\* C19: for all coefficient sequences a and b, poly_add and poly_sub return
\* the coefficient-wise sum and difference mod M of the operands zero-padded
\* to the longer length, trailing zero coefficients stripped, and a result of
\* length at least 1.
C19_AddSubPaddedStripped ==
    (stage = "sums" /\ arg.fn = "binary") =>
        /\ out.add = strip(PaddedSum(arg.a, arg.b, 1, arg.M))
        /\ out.sub = strip(PaddedSum(arg.a, arg.b, 0 - 1, arg.M))
        /\ Len(out.add) >= 1
        /\ Len(out.sub) >= 1

----------------------------------------------------------------------------
(* Curve group: the point arithmetic validate_point_section asks of the curve
   library, the affine short-Weierstrass group law. *)

add_point(P1, P2, c) ==
    IF P1.is_infinity THEN P2
    ELSE IF P2.is_infinity THEN P1
    ELSE IF P1.x % c.M = P2.x % c.M /\ (P1.y + P2.y) % c.M = 0 THEN Infinity
    ELSE LET lam == IF P1.x % c.M = P2.x % c.M
                    THEN ((3 * P1.x * P1.x + c.a) * ModInv(2 * P1.y, c.M)) % c.M
                    ELSE ((P2.y - P1.y) * ModInv(P2.x - P1.x, c.M)) % c.M
             x3 == (lam * lam - P1.x - P2.x) % c.M
         IN  Affine(x3, (lam * (P1.x - x3) - P1.y) % c.M)

RECURSIVE mul_point(_, _, _)
mul_point(k, P1, c) ==
    IF k = 0 \/ P1.is_infinity THEN Infinity
    ELSE IF k % 2 = 1 THEN add_point(P1, mul_point(k - 1, P1, c), c)
    ELSE LET half == mul_point(k \div 2, P1, c) IN add_point(half, half, c)

----------------------------------------------------------------------------
(* TestRunner: the tally is the record of the three counters (and of the
   number of ok/fail/skip calls made, which the code does not keep). *)

Tally == [passed |-> passed, failed |-> failed, skipped |-> skipped, calls |-> calls]

\* A variant of ok that counts a pass twice
ok_twice(t) == [t EXCEPT !.passed = @ + 2, !.calls = @ + 1]

ok(t) == [t EXCEPT !.passed = @ + 1, !.calls = @ + 1]
fail(t) == [t EXCEPT !.failed = @ + 1, !.calls = @ + 1]
skip(t) == [t EXCEPT !.skipped = @ + 1, !.calls = @ + 1]
begin_section(t) == t

\* A variant of summary that also fails a run with skips
summary_strict(t) == IF t.failed = 0 /\ t.skipped = 0 THEN 0 ELSE 1

summary(t) == IF t.failed = 0 THEN 0 ELSE 1

(* What the check of one vector does: the TestRunner calls it makes, in order,
   and the exception that escapes it, if any. *)
Pass == [verdicts |-> <<"PASS">>, raised |-> None]
Fail == [verdicts |-> <<"FAIL">>, raised |-> None]
Skip == [verdicts |-> <<"SKIP">>, raised |-> None]
Raise(e) == [verdicts |-> <<>>, raised |-> e]
Verdict(agree) == IF agree THEN Pass ELSE Fail

RECURSIVE Report(_, _)
Report(t, verdicts) ==
    IF verdicts = <<>> THEN t
    ELSE LET v == Head(verdicts)
             t1 == IF v = "PASS" THEN ok(t) ELSE IF v = "FAIL" THEN fail(t) ELSE skip(t)
         IN  Report(t1, Tail(verdicts))

----------------------------------------------------------------------------
(* validate_scalar_section: the check of one vector of each category *)

scalar_from_bytes(v, order) ==
    LET inp == from_le_hex(v.input)
    IN  IF v.result = None THEN Verdict(inp >= order)
        ELSE Verdict(inp < order /\ inp = from_le_hex(v.result))

\* The recomputations ("actual") of the arithmetic categories
add_actual(a, b, order) == (a + b) % order
sub_actual(a, b, order) == (a - b) % order
mul_actual(a, b, order) == (a * b) % order
sq_actual(a, order) == (a * a) % order
\* A variant of negate without the final reduction
negate_actual_raw(a, order) == order - a
negate_actual(a, order) == (order - a) % order
\* A variant of the inverse that returns its negation
invert_actual_neg(a, order) == (order - ModInv(a, order)) % order
\* actual = pow(a, -1, order)
invert_actual(a, order) == ModInv(a, order)
reduce_wide_actual(inp, order) == inp % order
muladd_actual(a, b, c, order) == (a * b + c) % order

scalar_add(v, order) ==
    Verdict(add_actual(from_le_hex(v.a), from_le_hex(v.b), order) = from_le_hex(v.result))

scalar_sub(v, order) ==
    Verdict(sub_actual(from_le_hex(v.a), from_le_hex(v.b), order) = from_le_hex(v.result))

scalar_mul(v, order) ==
    Verdict(mul_actual(from_le_hex(v.a), from_le_hex(v.b), order) = from_le_hex(v.result))

scalar_sq(v, order) ==
    Verdict(sq_actual(from_le_hex(v.a), order) = from_le_hex(v.result))

scalar_negate(v, order) ==
    Verdict(negate_actual(from_le_hex(v.a), order) = from_le_hex(v.result))

scalar_invert(v, order) ==
    LET a == from_le_hex(v.a)
    IN  IF v.result = None THEN Verdict(a = 0)
        ELSE IF ~Invertible(a, order) THEN Raise(ValueError)
        ELSE Verdict(invert_actual(a, order) = from_le_hex(v.result))

scalar_reduce_wide(v, order) ==
    Verdict(reduce_wide_actual(from_le_hex(v.input), order) = from_le_hex(v.result))

scalar_muladd(v, order) ==
    Verdict(muladd_actual(from_le_hex(v.a), from_le_hex(v.b), from_le_hex(v.c), order)
            = from_le_hex(v.result))

scalar_is_zero(v, order) == Verdict((from_le_hex(v.a) = 0) = v.result)

----------------------------------------------------------------------------
(* validate_point_section *)

point_from_bytes(v, c) ==
    IF v.result = None THEN Pass
    ELSE LET pt == decode_point_bytes(v.input, c.M, c.a, c.b)
         IN  IF pt = None THEN Verdict(v.result = ZeroBytes)
             ELSE Verdict(encode_point(pt[1], pt[2], c.M) = v.result)

point_scalar_mul(v, c) ==
    IF v.result = None THEN Pass
    ELSE LET scalar == from_le_hex(v.scalar)
             pt == decode(v.point, c.M, c.a, c.b)
             result == mul_point(scalar, pt, c)
         IN  Verdict(encode(result, c.M) = v.result)

map_to_curve_single(v) == Skip
map_to_curve_double(v) == Skip

----------------------------------------------------------------------------
(* validate_polynomial_section *)

\* [from_le_hex(c) for c in hexes]
IntList(hexes) == [i \in 1..Len(hexes) |-> from_le_hex(hexes[i])]

\* A variant of the interpolate check that reports a raised inverse as a failure
polynomial_interpolate_caught(v, p) ==
    IF interpolate_raises(IntList(v.xs), p) THEN Fail
    ELSE Verdict(poly_interpolate(IntList(v.xs), IntList(v.ys), p) = IntList(v.coefficients))

\* actual = poly_interpolate(xs, ys, p); nothing catches what it raises
polynomial_interpolate(v, p) ==
    IF interpolate_raises(IntList(v.xs), p) THEN Raise(ValueError)
    ELSE Verdict(poly_interpolate(IntList(v.xs), IntList(v.ys), p) = IntList(v.coefficients))

----------------------------------------------------------------------------
(* validate_batch_invert, validate_wei25519 *)

\* A variant of the recomputed list that inverts at the zero positions too
batch_actual_unit(inputs, p) ==
    [i \in 1..Len(inputs) |-> IF inputs[i] /= 0 THEN ModInv(inputs[i], p) ELSE 1]

\* actual = [pow(x, -1, p) if x != 0 else 0 for x in inputs]
batch_raises(inputs, p) == \E i \in 1..Len(inputs) : inputs[i] /= 0 /\ ~Invertible(inputs[i], p)
batch_actual(inputs, p) ==
    [i \in 1..Len(inputs) |-> IF inputs[i] /= 0 THEN ModInv(inputs[i], p) ELSE 0]

\* next((i for i in range(len(actual)) if actual[i] != expected[i]), -1)
\* raises IndexError when expected runs out before a differing index is found
\* (the index itself goes to the message only)
RECURSIVE first_diff_raises(_, _, _)
first_diff_raises(actual, expected, i) ==
    IF i > Len(actual) THEN FALSE
    ELSE IF i > Len(expected) THEN TRUE
    ELSE IF actual[i] /= expected[i] THEN FALSE
    ELSE first_diff_raises(actual, expected, i + 1)

batch_invert(v, p) ==
    LET inputs == [i \in 1..Len(v.inputs) |-> from_le_hex(v.inputs[i])]
        expected == [i \in 1..Len(v.results) |-> from_le_hex(v.results[i])]
    IN  IF batch_raises(inputs, p) THEN Raise(ValueError)
        ELSE LET actual == batch_actual(inputs, p)
             IN  IF actual = expected THEN Pass
                 ELSE IF first_diff_raises(actual, expected, 1) THEN Raise(IndexError)
                 ELSE Fail

wei25519_x_to_selene_scalar(v) == IF v.result = None THEN Pass ELSE Skip

----------------------------------------------------------------------------
(* validate_divisor_section *)

\* A variant of the divisor evaluation that adds y * b(x)
divisor_eval_plus(a_at_x, b_at_x, eval_y, p_field) == (a_at_x + eval_y * b_at_x) % p_field

\* actual_eval = (a_at_x - eval_y * b_at_x) % p_field
divisor_eval(a_at_x, b_at_x, eval_y, p_field) == (a_at_x - eval_y * b_at_x) % p_field

\* lhs == rhs for the evaluation point
eval_point_on_curve(eval_x, eval_y, c) ==
    (eval_y * eval_y) % c.M = (PowMod(eval_x, 3, c.M) + c.a * eval_x + c.b) % c.M

\* for i, ph in enumerate(points): the first point that does not decode, or
\* decodes off the curve, is reported and ends the loop
RECURSIVE all_on_curve(_, _, _)
all_on_curve(points, c, i) ==
    IF i > Len(points) THEN TRUE
    ELSE LET pt == decode_point_bytes(points[i], c.M, c.a, c.b)
         IN  IF pt = None THEN FALSE
             ELSE IF (pt[2] * pt[2]) % c.M /= (PowMod(pt[1], 3, c.M) + c.a * pt[1] + c.b) % c.M
             THEN FALSE
             ELSE all_on_curve(points, c, i + 1)

\* the three calls the check of a compute vector makes
divisor_compute(v, c) ==
    LET eval_x == from_le_hex(v.eval_point_x)
        eval_y == from_le_hex(v.eval_point_y)
        a_at_x == poly_eval(IntList(v.a_coefficients), eval_x, c.M)
        b_at_x == poly_eval(IntList(v.b_coefficients), eval_x, c.M)
        actual_eval == divisor_eval(a_at_x, b_at_x, eval_y, c.M)
    IN  [verdicts |-> Verdict(actual_eval = from_le_hex(v.eval_result)).verdicts
                      \o Verdict(eval_point_on_curve(eval_x, eval_y, c)).verdicts
                      \o Verdict(all_on_curve(v.points, c, 1)).verdicts,
         raised |-> None]

----------------------------------------------------------------------------
(* Field-arithmetic runs: InitField draws a modulus and raw operands, the
   actions apply the recomputations of the scalar and batch_invert checks. *)

FieldPrimes == {p \in 2..MaxFieldMod : IsPrime(p)}
FieldLists(M, n) == UNION {[1..k -> 0..(M - 1)] : k \in 0..n}

InitField ==
    /\ HarnessIdle
    /\ stage = "input"
    /\ out = <<>>
    /\ \E M \in FieldPrimes :
         \/ \E a, b, c \in 0..(2 * M) :
              arg = [fn |-> "scalar", M |-> M, a |-> a, b |-> b, c |-> c]
         \/ \E a \in 0..(2 * M), claimed \in 0..M :
              arg = [fn |-> "invert", M |-> M, a |-> a, claimed |-> claimed]
         \/ \E inputs \in FieldLists(M, MaxInputs) :
              arg = [fn |-> "batch", M |-> M, inputs |-> inputs]

\* the actual values of add, sub, mul, sq, negate, reduce_wide and muladd
RecomputeScalar ==
    /\ stage = "input" /\ arg.fn = "scalar"
    /\ out' = [add |-> add_actual(arg.a, arg.b, arg.M),
               sub |-> sub_actual(arg.a, arg.b, arg.M),
               mul |-> mul_actual(arg.a, arg.b, arg.M),
               sq |-> sq_actual(arg.a, arg.M),
               negate |-> negate_actual(arg.a, arg.M),
               reduce_wide |-> reduce_wide_actual(arg.a + arg.M * arg.b, arg.M),
               muladd |-> muladd_actual(arg.a, arg.b, arg.c, arg.M)]
    /\ stage' = "recomputed"
    /\ UNCHANGED <<arg, harnessVars>>

\* negate of the negation, and add of a and its negation
NegateBack ==
    /\ stage = "recomputed"
    /\ out' = [first |-> out,
               negneg |-> negate_actual(out.negate, arg.M),
               addneg |-> add_actual(arg.a, out.negate, arg.M)]
    /\ stage' = "negated"
    /\ UNCHANGED <<arg, harnessVars>>

\* actual = pow(a, -1, order), which raises when a has no inverse
RecomputeInverse ==
    /\ stage = "input" /\ arg.fn = "invert"
    /\ IF Invertible(arg.a, arg.M)
       THEN /\ out' = [invert |-> invert_actual(arg.a, arg.M)]
            /\ stage' = "inverted"
       ELSE /\ out' = [raised |-> ValueError]
            /\ stage' = "raised"
    /\ UNCHANGED <<arg, harnessVars>>

\* the mul recomputation of a and its inverse
MultiplyBack ==
    /\ stage = "inverted"
    /\ out' = [invert |-> out.invert, product |-> mul_actual(arg.a, out.invert, arg.M)]
    /\ stage' = "multiplied"
    /\ UNCHANGED <<arg, harnessVars>>

\* the invert check of the vector {a, result: claimed}
CheckInverse ==
    /\ stage = "multiplied"
    /\ out' = [invert |-> out.invert, product |-> out.product,
               check |-> scalar_invert([a |-> to_le_hex(arg.a),
                                        result |-> to_le_hex(arg.claimed)], arg.M)]
    /\ stage' = "checked"
    /\ UNCHANGED <<arg, harnessVars>>

\* actual = [pow(x, -1, p) if x != 0 else 0 for x in inputs]
RecomputeBatch ==
    /\ stage = "input" /\ arg.fn = "batch"
    /\ out' = IF batch_raises(arg.inputs, arg.M) THEN [raised |-> ValueError]
              ELSE [actual |-> batch_actual(arg.inputs, arg.M)]
    /\ stage' = "batched"
    /\ UNCHANGED <<arg, harnessVars>>

NextField ==
    \/ RecomputeScalar
    \/ NegateBack
    \/ RecomputeInverse
    \/ MultiplyBack
    \/ CheckInverse
    \/ RecomputeBatch

SpecField == InitField /\ [][NextField]_vars

\* C14: for every list of field elements of a prime modulus p the list
\* batch_invert recomputes is as long as the input, no error is raised, it
\* holds 0 where the input is 0 and elsewhere the r in [1, p) with
\* input * r = 1 mod p.
C14_BatchRecomputation ==
    (stage = "batched" /\ arg.fn = "batch") =>
        /\ DOMAIN out = {"actual"}
        /\ Len(out.actual) = Len(arg.inputs)
        /\ \A i \in 1..Len(arg.inputs) :
             IF arg.inputs[i] = 0 THEN out.actual[i] = 0
             ELSE /\ out.actual[i] \in 1..(arg.M - 1)
                  /\ (arg.inputs[i] * out.actual[i]) % arg.M = 1

\* A recomputed list with a zero next to a value that is not its own inverse.
C14_Witness ==
    /\ stage = "batched" /\ arg.fn = "batch"
    /\ Len(arg.inputs) = 2 /\ arg.inputs[1] = 0 /\ arg.inputs[2] > 1
    /\ out.actual[1] = 0
    /\ out.actual[2] \notin {0, arg.inputs[2]}

\* C15: over a modulus M, negate(negate(v)) = v and add(v, negate(v)) = 0 for
\* every field element v < M (negate(0) = 0), and every recomputed add, sub,
\* mul, sq, negate, reduce_wide and muladd value lies in [0, M), for raw
\* inputs >= M too.
C15_NegateInvolutionAndRange ==
    /\ (stage = "recomputed" /\ arg.fn = "scalar") =>
          /\ \A f \in DOMAIN out : out[f] \in 0..(arg.M - 1)
          /\ arg.a = 0 => out.negate = 0
    /\ (stage = "negated" /\ arg.fn = "scalar") =>
          /\ out.negneg \in 0..(arg.M - 1)
          /\ out.addneg \in 0..(arg.M - 1)
          /\ arg.a < arg.M => (out.negneg = arg.a /\ out.addneg = 0)

\* The negation of a non-zero field element negated back, with a raw second
\* operand above the modulus.
C15_Witness ==
    /\ stage = "negated" /\ arg.fn = "scalar"
    /\ arg.a \in 1..(arg.M - 1) /\ arg.b > arg.M
    /\ out.first.negate = arg.M - arg.a
    /\ out.negneg = arg.a /\ out.addneg = 0

\* C16: for every non-zero field element v < M, M prime, the inverse the
\* invert check recomputes lies in [1, M) and multiplies with v to 1 mod M,
\* and the check of a vector with a non-null result passes exactly when the
\* claimed result is that inverse (and fails otherwise).
C16_InverseAndItsCheck ==
    (arg.fn = "invert" /\ arg.a \in 1..(arg.M - 1)) =>
        /\ stage /= "raised"
        /\ stage \in {"inverted", "multiplied", "checked"} => out.invert \in 1..(arg.M - 1)
        /\ stage \in {"multiplied", "checked"} => out.product = 1
        /\ stage = "checked" =>
             /\ out.check.raised = None
             /\ out.check.verdicts =
                  IF arg.claimed = out.invert THEN <<"PASS">> ELSE <<"FAIL">>

\* A passed check of an inverse that differs from its argument.
C16_Witness ==
    /\ stage = "checked" /\ arg.fn = "invert"
    /\ arg.a \in 2..(arg.M - 2)
    /\ out.invert /= arg.a
    /\ arg.claimed = out.invert
    /\ out.check.verdicts = <<"PASS">>

----------------------------------------------------------------------------
(* main: the document it reads, and the order it walks the sections in *)

AssertionError == <<"AssertionError">>

SectionOrder ==
    <<"helios_scalar", "selene_scalar", "helios_point", "selene_point",
      "fp_polynomial", "fq_polynomial", "batch_invert", "helios_divisor",
      "selene_divisor", "wei25519", "high_degree_poly_mul">>

ScalarCats == <<"from_bytes", "add", "sub", "mul", "sq", "negate", "invert",
                "reduce_wide", "muladd", "is_zero">>
PointCats == <<"from_bytes", "add", "dbl", "negate", "scalar_mul", "msm",
               "pedersen_commit", "x_coordinate", "map_to_curve_single",
               "map_to_curve_double">>
PolyCats == <<"from_roots", "evaluate", "mul", "add", "sub", "divmod", "interpolate">>
FieldCats == <<"fp", "fq">>

Cats(section) ==
    IF section \in {"helios_scalar", "selene_scalar"} THEN ScalarCats
    ELSE IF section \in {"helios_point", "selene_point"} THEN PointCats
    ELSE IF section \in {"fp_polynomial", "fq_polynomial"} THEN PolyCats
    ELSE IF section \in {"batch_invert", "high_degree_poly_mul"} THEN FieldCats
    ELSE IF section \in {"helios_divisor", "selene_divisor"} THEN <<"compute">>
    ELSE <<"x_to_selene_scalar">>

IndexIn(seq, e) == CHOOSE i \in 1..Len(seq) : seq[i] = e
SecIdx(section) == IndexIn(SectionOrder, section)
CatIdx(section, cat) == IndexIn(Cats(section), cat)

(* The parameters of the document: a two-cycle of prime-order curves,
   Helios over F_P with Q points and Selene over F_Q with P points. *)
HeliosGen == SetTop(to_le_hex(0))
SeleneGen == SetTop(to_le_hex(0))
Documents ==
    {[P |-> 5, Q |-> 7, A |-> 0 - 3, helios_b |-> 1, selene_b |-> 1,
      helios_gen |-> g[1], selene_gen |-> g[2]] :
        g \in {<<HeliosGen, SeleneGen>>, <<ZeroBytes, SeleneGen>>,
               <<HeliosGen, to_le_hex(2)>>}}

\* validate_scalar_section(t, data["helios_scalar"], "helios", Q), ... "selene", P
OrderOf(section) == IF section = "helios_scalar" THEN params.Q ELSE params.P

\* validate_point_section(..., "helios", P, A, helios_b, Q, ...), ("selene", Q, A, selene_b, P)
CurveOf(section) ==
    IF section = "helios_point"
    THEN [M |-> params.P, a |-> params.A, b |-> params.helios_b]
    ELSE [M |-> params.Q, a |-> params.A, b |-> params.selene_b]

\* for field_name, p in [("fp", P), ("fq", Q)]
FieldOf(cat) == IF cat = "fp" THEN params.P ELSE params.Q

\* validate_polynomial_section(..., "fp", P), (..., "fq", Q)
RingOf(section) == IF section = "fp_polynomial" THEN params.P ELSE params.Q

\* validate_divisor_section(..., "helios", P, A, helios_b, ...), ("selene", Q, A, selene_b, ...)
DivisorCurveOf(section) ==
    IF section = "helios_divisor"
    THEN [M |-> params.P, a |-> params.A, b |-> params.helios_b]
    ELSE [M |-> params.Q, a |-> params.A, b |-> params.selene_b]

\* No vector in hand.  A vector in hand is kept with the tally as it was before
\* its check, the TestRunner calls the check made and the exception it raised.
NoVector ==
    [section |-> "none", cat |-> "none", v |-> <<>>, verdicts |-> <<>>, raised |-> None,
     before |-> [passed |-> 0, failed |-> 0, skipped |-> 0, calls |-> 0]]

Init ==
    /\ passed = 0 /\ failed = 0 /\ skipped = 0 /\ calls = 0
    /\ pc = "start"
    /\ exitStatus = None
    /\ sec = <<0, 0>>
    /\ params \in Documents
    /\ last = NoVector
    /\ stage = "idle" /\ arg = <<>> /\ out = <<>>

SetTally(t) ==
    /\ passed' = t.passed
    /\ failed' = t.failed
    /\ skipped' = t.skipped
    /\ calls' = t.calls

\* main, lines 770-777: both generators must decode
DecodeGenerators ==
    /\ pc = "start"
    /\ LET helios_gen_xy == decode_point_bytes(params.helios_gen, params.P, params.A, params.helios_b)
           selene_gen_xy == decode_point_bytes(params.selene_gen, params.Q, params.A, params.selene_b)
       IN  IF helios_gen_xy = None \/ selene_gen_xy = None
           THEN /\ pc' = "crashed"
                /\ last' = [NoVector EXCEPT !.section = "main", !.cat = "generator",
                                            !.raised = AssertionError]
           ELSE /\ pc' = "run"
                /\ last' = NoVector
    /\ UNCHANGED <<passed, failed, skipped, calls, exitStatus, sec, params, pureVars>>

\* main calls the validate_* functions in turn; each starts with begin_section
BeginSection ==
    /\ pc = "run"
    /\ last = NoVector
    /\ sec[1] < Len(SectionOrder)
    /\ sec' = <<sec[1] + 1, 0>>
    /\ SetTally(begin_section(Tally))
    /\ UNCHANGED <<pc, exitStatus, params, last, pureVars>>

\* The check of the next vector of a category of the current section, whose
\* loop has not been left yet: the document holds some vector v of Vectors
\* there, and Checked[v] is what the check of v does.
Examine(section, cat, Checked) ==
    /\ pc = "run"
    /\ last = NoVector
    /\ calls < MaxVectors
    /\ sec[1] = SecIdx(section)
    /\ sec[2] <= CatIdx(section, cat)
    /\ sec' = <<sec[1], CatIdx(section, cat)>>
    /\ \E v \in DOMAIN Checked :
         LET r == Checked[v]
         IN  /\ SetTally(Report(Tally, r.verdicts))
             /\ pc' = IF r.raised = None THEN "run" ELSE "crashed"
             /\ last' = [section |-> section, cat |-> cat, v |-> v,
                         verdicts |-> r.verdicts, raised |-> r.raised,
                         before |-> Tally]
    /\ UNCHANGED <<exitStatus, params, pureVars>>

(* The values the sampled vectors hold *)
RawScalars == {to_le_hex(n) : n \in 0..MaxRaw}
WideScalars == {to_le_bytes(n * (ByteBase ^ EncLen + 1), 2 * EncLen) : n \in 0..MaxRaw}
PointHex == RawScalars \cup {SetTop(h) : h \in RawScalars}
Nullable(S) == {None} \cup S
SmallScalars == {to_le_hex(n) : n \in 0..MaxSmall}
\* scalar_mul: the all-zero encoding, a generator, x = 1 and x = 2
PointSamples == {ZeroBytes, HeliosGen, to_le_hex(1), to_le_hex(2)}
\* batch_invert: zero, an invertible value and P itself; zero and the
\* inverse of that value modulo P
BatchInputs == UNION {[1..k -> {to_le_hex(n) : n \in {0, 2, 5}}] : k \in 0..MaxBatch}
BatchResults == UNION {[1..k -> {to_le_hex(n) : n \in {0, 3}}] : k \in 0..MaxBatch}
ScalarSections == {"helios_scalar", "selene_scalar"}
PointSections == {"helios_point", "selene_point"}

ScalarFromBytes ==
    \E s \in ScalarSections :
        Examine(s, "from_bytes",
                [v \in [input : RawScalars, result : Nullable(RawScalars)] |->
                    scalar_from_bytes(v, OrderOf(s))])

ScalarAdd ==
    \E s \in ScalarSections :
        Examine(s, "add",
                [v \in [a : RawScalars, b : SmallScalars, result : RawScalars] |->
                    scalar_add(v, OrderOf(s))])

ScalarSub ==
    \E s \in ScalarSections :
        Examine(s, "sub",
                [v \in [a : RawScalars, b : SmallScalars, result : RawScalars] |->
                    scalar_sub(v, OrderOf(s))])

ScalarMul ==
    \E s \in ScalarSections :
        Examine(s, "mul",
                [v \in [a : RawScalars, b : SmallScalars, result : RawScalars] |->
                    scalar_mul(v, OrderOf(s))])

ScalarSq ==
    \E s \in ScalarSections :
        Examine(s, "sq",
                [v \in [a : RawScalars, result : RawScalars] |->
                    scalar_sq(v, OrderOf(s))])

ScalarNegate ==
    \E s \in ScalarSections :
        Examine(s, "negate",
                [v \in [a : RawScalars, result : RawScalars] |->
                    scalar_negate(v, OrderOf(s))])

ScalarInvert ==
    \E s \in ScalarSections :
        Examine(s, "invert",
                [v \in [a : RawScalars, result : Nullable(RawScalars)] |->
                    scalar_invert(v, OrderOf(s))])

ScalarReduceWide ==
    \E s \in ScalarSections :
        Examine(s, "reduce_wide",
                [v \in [input : WideScalars, result : RawScalars] |->
                    scalar_reduce_wide(v, OrderOf(s))])

ScalarMulAdd ==
    \E s \in ScalarSections :
        Examine(s, "muladd",
                [v \in [a : RawScalars, b : {to_le_hex(1), to_le_hex(MaxRaw)}, c : {to_le_hex(0), to_le_hex(MaxRaw)}, result : RawScalars] |->
                    scalar_muladd(v, OrderOf(s))])

ScalarIsZero ==
    \E s \in ScalarSections :
        Examine(s, "is_zero",
                [v \in [a : RawScalars, result : BOOLEAN] |->
                    scalar_is_zero(v, OrderOf(s))])

PointFromBytes ==
    \E s \in PointSections :
        Examine(s, "from_bytes",
                [v \in [input : PointHex, result : Nullable(PointHex)] |->
                    point_from_bytes(v, CurveOf(s))])

PointScalarMul ==
    \E s \in PointSections :
        Examine(s, "scalar_mul",
                [v \in [scalar : SmallScalars, point : PointSamples, result : Nullable(PointHex)] |->
                    point_scalar_mul(v, CurveOf(s))])

MapToCurveSingle ==
    \E s \in PointSections :
        Examine(s, "map_to_curve_single",
                [v \in [u : SmallScalars, result : Nullable(PointHex)] |->
                    map_to_curve_single(v)])

MapToCurveDouble ==
    \E s \in PointSections :
        Examine(s, "map_to_curve_double",
                [v \in [u0 : SmallScalars, u1 : {to_le_hex(1)}, result : Nullable(PointHex)] |->
                    map_to_curve_double(v)])

\* interpolate: two samples among 0, 1 and a value that is 0 mod P, two
\* ordinates, and a claimed polynomial
PolySections == {"fp_polynomial", "fq_polynomial"}
SampleXs == [1..2 -> {to_le_hex(0), to_le_hex(1), to_le_hex(MaxPolyMod)}]
SampleYs == {<<to_le_hex(1), to_le_hex(2)>>}
SampleCoeffs == {<<to_le_hex(1), to_le_hex(1)>>, <<to_le_hex(2)>>}

PolyInterpolate ==
    \E s \in PolySections :
        Examine(s, "interpolate",
                [v \in [xs : SampleXs, ys : SampleYs, coefficients : SampleCoeffs] |->
                    polynomial_interpolate(v, RingOf(s))])

BatchInvert ==
    \E f \in {"fp", "fq"} :
        Examine("batch_invert", f,
                [v \in [inputs : BatchInputs, results : BatchResults] |->
                    batch_invert(v, FieldOf(f))])

\* compute: a(x) = 1 + 2x, b(x) = 1 or x, an evaluation point on or off the
\* curve, a claimed value, and no point, the all-zero encoding or a generator
DivisorSections == {"helios_divisor", "selene_divisor"}
DivisorVectors ==
    [a_coefficients : {<<to_le_hex(1), to_le_hex(2)>>},
     b_coefficients : {<<to_le_hex(1)>>, <<to_le_hex(0), to_le_hex(1)>>},
     eval_point_x : {to_le_hex(0), to_le_hex(1)},
     eval_point_y : {to_le_hex(1), to_le_hex(2)},
     eval_result : SmallScalars,
     points : {<<>>, <<ZeroBytes>>, <<HeliosGen>>}]

DivisorCompute ==
    \E s \in DivisorSections :
        Examine(s, "compute",
                [v \in DivisorVectors |-> divisor_compute(v, DivisorCurveOf(s))])

----------------------------------------------------------------------------
(* validate_high_degree_poly_mul *)

\* a_coeffs = [(i + 1) % p for i in range(n_coeffs)]
pattern_a(n_coeffs, p) == [i \in 1..n_coeffs |-> i % p]
\* b_coeffs = [(i + n_coeffs + 1) % p for i in range(n_coeffs)]
pattern_b(n_coeffs, p) == [i \in 1..n_coeffs |-> (i + n_coeffs) % p]

\* the body of "for check in v.get("eval_checks", [])": one call per check
eval_check(check, a_coeffs, b_coeffs, p) ==
    LET x == from_le_hex(check.x)
        a_of_x == from_le_hex(check.a_of_x)
        b_of_x == from_le_hex(check.b_of_x)
        result_of_x == from_le_hex(check.result_of_x)
    IN  IF poly_eval(a_coeffs, x, p) /= a_of_x THEN "FAIL"
        ELSE IF poly_eval(b_coeffs, x, p) /= b_of_x THEN "FAIL"
        ELSE IF (a_of_x * b_of_x) % p = result_of_x THEN "PASS"
        ELSE "FAIL"

\* the check of one vector: a failure for a wrong degree, else one call for
\* each of its eval_checks (none when the list is empty or absent)
high_degree_poly_mul(v, p) ==
    LET expected_degree == IF v.n_coeffs > 0 THEN (v.n_coeffs - 1) * 2 ELSE 0
    IN  IF v.result_degree /= expected_degree THEN Fail
        ELSE [verdicts |-> [k \in 1..Len(v.eval_checks) |->
                              eval_check(v.eval_checks[k], pattern_a(v.n_coeffs, p),
                                         pattern_b(v.n_coeffs, p), p)],
              raised |-> None]

\* Vectors of no or two coefficients, a claimed degree, and no check or one
\* check at x = 1
EvalChecks ==
    [x : {to_le_hex(1)}, a_of_x : {to_le_hex(3)}, b_of_x : {to_le_hex(0), to_le_hex(2)},
     result_of_x : {to_le_hex(0), to_le_hex(1)}]
HighDegreeVectors ==
    [n_coeffs : {0, 2}, result_degree : {0, 2},
     eval_checks : {<<>>} \cup {<<check>> : check \in EvalChecks}]

HighDegreePolyMul ==
    \E f \in {"fp", "fq"} :
        Examine("high_degree_poly_mul", f,
                [v \in HighDegreeVectors |-> high_degree_poly_mul(v, FieldOf(f))])

Wei25519 ==
    Examine("wei25519", "x_to_selene_scalar",
                [v \in [x : SmallScalars, result : Nullable(RawScalars)] |->
                    wei25519_x_to_selene_scalar(v)])

\* The loop moves on: the vector just checked is dropped.
NextVector ==
    /\ pc = "run"
    /\ last /= NoVector
    /\ last' = NoVector
    /\ UNCHANGED <<passed, failed, skipped, calls, pc, exitStatus, sec, params, pureVars>>

\* sys.exit(t.summary()), after validate_wei25519 and the optional
\* high_degree_poly_mul section
Summary ==
    /\ pc = "run"
    /\ last = NoVector
    /\ sec[1] >= SecIdx("wei25519")
    /\ exitStatus' = Some(summary(Tally))
    /\ pc' = "done"
    /\ UNCHANGED <<passed, failed, skipped, calls, sec, params, last, pureVars>>

Next ==
    \/ DecodeGenerators
    \/ BeginSection
    \/ ScalarFromBytes
    \/ ScalarAdd
    \/ ScalarSub
    \/ ScalarMul
    \/ ScalarSq
    \/ ScalarNegate
    \/ ScalarInvert
    \/ ScalarReduceWide
    \/ ScalarMulAdd
    \/ ScalarIsZero
    \/ PointFromBytes
    \/ PointScalarMul
    \/ MapToCurveSingle
    \/ MapToCurveDouble
    \/ PolyInterpolate
    \/ BatchInvert
    \/ DivisorCompute
    \/ Wei25519
    \/ HighDegreePolyMul
    \/ NextVector
    \/ Summary

Spec == Init /\ [][Next]_vars

----------------------------------------------------------------------------
(* Properties of the harness *)

\* C1: summary, whose value is the exit status, returns 0 exactly when the
\* failed counter is zero and 1 otherwise, whatever passed and skipped hold.
C1_ExitStatusIsFailedFlag ==
    pc = "done" => exitStatus = Some(IF failed = 0 THEN 0 ELSE 1)

\* A run that ended with passes and skips and no failure, and exited with 0.
C1_Witness ==
    /\ pc = "done" /\ failed = 0 /\ passed > 0 /\ skipped > 0
    /\ exitStatus = Some(0)

InHand == last.section \in ScalarSections \cup PointSections \cup {"batch_invert", "wei25519"}

\* The recomputed output of a scalar-section vector, None when there is none
ScalarRecomputed(l) ==
    LET v == l.v
        order == OrderOf(l.section)
    IN  CASE l.cat = "from_bytes" ->
               IF from_le_hex(v.input) < order THEN Some(from_le_hex(v.input)) ELSE None
          [] l.cat = "add" -> Some((from_le_hex(v.a) + from_le_hex(v.b)) % order)
          [] l.cat = "sub" -> Some((from_le_hex(v.a) - from_le_hex(v.b)) % order)
          [] l.cat = "mul" -> Some((from_le_hex(v.a) * from_le_hex(v.b)) % order)
          [] l.cat = "sq" -> Some((from_le_hex(v.a) * from_le_hex(v.a)) % order)
          [] l.cat = "negate" -> Some((order - from_le_hex(v.a)) % order)
          [] l.cat = "invert" ->
               IF from_le_hex(v.a) % order = 0 THEN None
               ELSE Some(ModInv(from_le_hex(v.a), order))
          [] l.cat = "reduce_wide" -> Some(from_le_hex(v.input) % order)
          [] l.cat = "muladd" ->
               Some((from_le_hex(v.a) * from_le_hex(v.b) + from_le_hex(v.c)) % order)
          [] OTHER -> None

ScalarClaimed(l) == IF l.v.result = None THEN None ELSE Some(from_le_hex(l.v.result))

\* A batch_invert vector over field elements whose claimed list is not the
\* list of inverses (0 for 0)
BatchMismatch(l) ==
    LET p == FieldOf(l.cat)
        inputs == [i \in 1..Len(l.v.inputs) |-> from_le_hex(l.v.inputs[i])]
        claimed == [i \in 1..Len(l.v.results) |-> from_le_hex(l.v.results[i])]
    IN  /\ \A i \in 1..Len(inputs) : inputs[i] < p
        /\ claimed /= [i \in 1..Len(inputs) |->
                          IF inputs[i] = 0 THEN 0 ELSE ModInv(inputs[i], p)]

Mismatch(l) ==
    \/ /\ l.section \in ScalarSections
       /\ l.cat /= "is_zero"
       /\ ScalarClaimed(l) /= ScalarRecomputed(l)
    \/ /\ l.section = "batch_invert"
       /\ BatchMismatch(l)

\* C2: a vector whose claimed output differs from the recomputed one (a scalar
\* invert vector with input 0 and a claimed result and a batch_invert vector
\* with a differing list included) records exactly one failure, lets no
\* exception escape, and the run goes on to the next vector.
C2_MismatchOnlyRecordsFailure ==
    (InHand /\ Mismatch(last)) =>
        /\ last.verdicts = <<"FAIL">>
        /\ last.raised = None
        /\ pc = "run"

DecodeFails(h, c) == ~AllZero(h) /\ decode_point_bytes(h, c.M, c.a, c.b) = None

\* The engine's computation on the input of a rejection vector finds no result
NoResult(l) ==
    IF l.section \in ScalarSections
    THEN IF l.cat = "from_bytes" THEN from_le_hex(l.v.input) >= OrderOf(l.section)
         ELSE from_le_hex(l.v.a) = 0
    ELSE IF l.cat = "from_bytes" THEN DecodeFails(l.v.input, CurveOf(l.section))
         ELSE DecodeFails(l.v.point, CurveOf(l.section))

IsRejectionVector(l) ==
    /\ \/ l.section \in ScalarSections /\ l.cat \in {"from_bytes", "invert"}
       \/ l.section \in PointSections /\ l.cat \in {"from_bytes", "scalar_mul"}
    /\ l.v.result = None

\* C3: a rejection vector (expected output null) of scalar from_bytes, scalar
\* invert, point from_bytes or point scalar_mul is recorded PASS exactly when
\* the engine's computation on its input finds no result, and FAIL whenever
\* the engine produces one.
C3_RejectionNeedsAgreement ==
    IsRejectionVector(last) =>
        last.verdicts = IF NoResult(last) THEN <<"PASS">> ELSE <<"FAIL">>

Deferred(l) ==
    \/ l.section \in PointSections /\ l.cat \in {"map_to_curve_single", "map_to_curve_double"}
    \/ l.section = "wei25519" /\ l.cat = "x_to_selene_scalar"

\* C4: a vector of a deferred category (map_to_curve_single,
\* map_to_curve_double, wei25519 x_to_selene_scalar) increments the skipped
\* counter only, whatever it holds.
C4_DeferredOnlySkips ==
    Deferred(last) =>
        /\ passed = last.before.passed
        /\ failed = last.before.failed
        /\ skipped = last.before.skipped + 1

\* The TestRunner calls of a step: those of the vector it took in hand
CallsOfStep(kind) ==
    IF last' /= last
    THEN Cardinality({i \in DOMAIN last'.verdicts : last'.verdicts[i] = kind})
    ELSE 0

\* C5: every ok, fail or skip call adds 1 to its own counter and leaves the
\* other two alone, begin_section and summary change none; so the counters
\* always add up to the number of calls made and never decrease.
C5_CountersFrame ==
    /\ [](passed + failed + skipped = calls)
    /\ [][/\ passed' = passed + CallsOfStep("PASS")
          /\ failed' = failed + CallsOfStep("FAIL")
          /\ skipped' = skipped + CallsOfStep("SKIP")
          /\ calls' = calls + CallsOfStep("PASS") + CallsOfStep("FAIL") + CallsOfStep("SKIP")]_vars

\* A finished run in which each of the three counters was incremented once.
C5_Witness ==
    /\ pc = "done" /\ passed = 1 /\ failed = 1 /\ skipped = 1 /\ calls = 3

\* Two samples of the interpolate vector in hand coincide mod the modulus
CoincidingSamples(l) ==
    /\ l.section \in PolySections
    /\ l.cat = "interpolate"
    /\ \E i, j \in 1..Len(l.v.xs) :
         /\ i /= j
         /\ from_le_hex(l.v.xs[i]) % RingOf(l.section)
              = from_le_hex(l.v.xs[j]) % RingOf(l.section)

\* C12: an interpolate vector with two x-samples that coincide mod M makes
\* poly_interpolate raise; no PASS, FAIL or SKIP is recorded for it, and the
\* run is aborted and never reaches the summary.
C12_CoincidingSamplesAbort ==
    /\ [](CoincidingSamples(last) =>
            /\ last.raised = ValueError
            /\ last.verdicts = <<>>
            /\ Tally = last.before
            /\ pc = "crashed"
            /\ exitStatus = None)
    /\ [][pc = "crashed" => (pc' = "crashed" /\ exitStatus' = None)]_vars

\* An aborted run whose vector in hand has two samples that differ as integers
\* and coincide mod the modulus, after an earlier vector was recorded.
C12_Witness ==
    /\ pc = "crashed"
    /\ CoincidingSamples(last)
    /\ last.v.xs[1] /= last.v.xs[2]
    /\ calls > 0

\* The number of verdicts of one kind among those of the vector in hand
CountOf(kind) == Cardinality({i \in DOMAIN last.verdicts : last.verdicts[i] = kind})

C21_DecodeFailureNotAccepted ==
    (/\ last.section \in PointSections
     /\ last.cat \in {"from_bytes", "scalar_mul"}
     /\ last.v.result /= None
     /\ DecodeFails(IF last.cat = "from_bytes" THEN last.v.input ELSE last.v.point,
                    CurveOf(last.section))) =>
        last.verdicts /= <<"PASS">>

----------------------------------------------------------------------------
(* Reordered runs: the vectors of a small corpus are checked in any order, one
   check at a time, each check being the one the code makes of that vector. *)

MaxCorpus == 3       \* most vectors of a reordered corpus

\* The check the section's loop makes of one vector
CheckOf(it) ==
    CASE it.section \in ScalarSections /\ it.cat = "add" ->
           scalar_add(it.v, OrderOf(it.section))
      [] it.section \in ScalarSections /\ it.cat = "invert" ->
           scalar_invert(it.v, OrderOf(it.section))
      [] it.section \in PointSections /\ it.cat = "from_bytes" ->
           point_from_bytes(it.v, CurveOf(it.section))
      [] OTHER -> map_to_curve_single(it.v)

\* main: the vectors in document order, up to the first check that raises
RECURSIVE main_loop(_, _, _)
main_loop(corpus, i, t) ==
    IF i > Len(corpus) THEN [tally |-> t, exit |-> Some(summary(t))]
    ELSE LET r == CheckOf(corpus[i])
         IN  IF r.raised /= None THEN [tally |-> Report(t, r.verdicts), exit |-> None]
             ELSE main_loop(corpus, i + 1, Report(t, r.verdicts))

main(corpus) == main_loop(corpus, 1, NoVector.before)

\* A passing and a failing scalar add, a point from_bytes, a deferred vector,
\* and an invert vector of input 0 with a claimed result
CorpusItems ==
    {[section |-> "helios_scalar", cat |-> "add",
      v |-> [a |-> to_le_hex(1), b |-> to_le_hex(1), result |-> to_le_hex(2)]],
     [section |-> "selene_scalar", cat |-> "add",
      v |-> [a |-> to_le_hex(1), b |-> to_le_hex(1), result |-> to_le_hex(3)]],
     [section |-> "helios_point", cat |-> "from_bytes",
      v |-> [input |-> HeliosGen, result |-> HeliosGen]],
     [section |-> "selene_point", cat |-> "map_to_curve_single",
      v |-> [u |-> to_le_hex(1), result |-> None]],
     [section |-> "helios_scalar", cat |-> "invert",
      v |-> [a |-> to_le_hex(0), result |-> to_le_hex(1)]]}

\* The document holds its vectors section by section, category by category
InDocumentOrder(corpus) ==
    \A i \in 1..(Len(corpus) - 1) :
        \/ SecIdx(corpus[i].section) < SecIdx(corpus[i + 1].section)
        \/ /\ corpus[i].section = corpus[i + 1].section
           /\ CatIdx(corpus[i].section, corpus[i].cat)
                <= CatIdx(corpus[i + 1].section, corpus[i + 1].cat)

InitOrder ==
    /\ passed = 0 /\ failed = 0 /\ skipped = 0 /\ calls = 0
    /\ pc = "run"
    /\ exitStatus = None
    /\ sec = <<0, 0>>
    /\ params \in Documents
    /\ last = NoVector
    /\ stage = "reorder"
    /\ arg \in {corpus \in UNION {[1..k -> CorpusItems] : k \in 0..MaxCorpus} :
                  InDocumentOrder(corpus)}
    /\ out = DOMAIN arg

\* Any vector not checked yet is checked next
CheckAny ==
    /\ pc = "run" /\ stage = "reorder"
    /\ \E i \in out :
         LET r == CheckOf(arg[i])
         IN  /\ SetTally(Report(Tally, r.verdicts))
             /\ pc' = IF r.raised = None THEN "run" ELSE "crashed"
             /\ last' = [section |-> arg[i].section, cat |-> arg[i].cat, v |-> arg[i].v,
                         verdicts |-> r.verdicts, raised |-> r.raised, before |-> Tally]
             /\ out' = out \ {i}
    /\ UNCHANGED <<exitStatus, sec, params, stage, arg>>

\* sys.exit(t.summary()) once every vector was checked
Finish ==
    /\ pc = "run" /\ stage = "reorder"
    /\ out = {}
    /\ exitStatus' = Some(summary(Tally))
    /\ pc' = "done"
    /\ UNCHANGED <<passed, failed, skipped, calls, sec, params, last, pureVars>>

NextOrder == CheckAny \/ Finish

SpecOrder == InitOrder /\ [][NextOrder]_vars

\* C22: the final tally and the exit status do not depend on the order the
\* vectors are checked in: a run that checks the vectors of the corpus in any
\* order ends with the counters and the exit status of the run that checks
\* them in document order.
C22_OrderIndependent ==
    (stage = "reorder" /\ pc \in {"done", "crashed"}) =>
        /\ passed = main(arg).tally.passed
        /\ failed = main(arg).tally.failed
        /\ skipped = main(arg).tally.skipped
        /\ exitStatus = main(arg).exit

CanonicalOver(f, M) == Canonical(f) /\ InField(f, M)

\* C23: every polynomial operation preserves canonical form: for operands in
\* canonical form (non-empty, no trailing zero unless exactly [0], coefficients
\* in [0, M)) the results of poly_from_roots, poly_mul, poly_add, poly_sub,
\* poly_divmod (both outputs) and poly_interpolate are in canonical form with
\* coefficients in [0, M), and a product with [0] is [0].
C23_CanonicalFormPreserved ==
    /\ stage = "rooted" => CanonicalOver(out[1], arg.M)
    /\ stage = "interpolated" => CanonicalOver(out[1], arg.M)
    /\ (/\ stage \in {"product", "sums", "shortDivided"}
        /\ CanonicalOver(arg.a, arg.M)
        /\ CanonicalOver(arg.b, arg.M)) =>
          /\ stage = "product" =>
               /\ CanonicalOver(out[1], arg.M)
               /\ (arg.a = <<0>> \/ arg.b = <<0>>) => out[1] = <<0>>
          /\ stage = "sums" =>
               /\ CanonicalOver(out.add, arg.M)
               /\ CanonicalOver(out.sub, arg.M)
          /\ stage = "shortDivided" =>
               /\ CanonicalOver(out[1], arg.M)
               /\ CanonicalOver(out[2], arg.M)

\* An auxiliary point that is the identity, or decodes to a point of the curve
AuxiliaryPointHolds(h, c) ==
    \/ AllZero(h)
    \/ LET pt == decode_point_bytes(h, c.M, c.a, c.b)
       IN  pt /= None /\ OnCurve(pt[1], pt[2], c)

\* C24: the auxiliary points of a divisor compute vector get exactly one
\* verdict, the third of the vector: a single PASS when every point decodes and
\* satisfies the curve equation, a FAIL for the first point that does not; an
\* auxiliary point that is the identity (all-zero encoding) is no failure.
C24_AuxiliaryPointsVerdict ==
    (last.section \in DivisorSections /\ last.cat = "compute") =>
        /\ Len(last.verdicts) = 3
        /\ last.verdicts[3] =
             IF \A i \in 1..Len(last.v.points) :
                    AuxiliaryPointHolds(last.v.points[i], DivisorCurveOf(last.section))
             THEN "PASS" ELSE "FAIL"

----------------------------------------------------------------------------
(* mod_sqrt step by step: out holds the locals of the call, stage the loop it
   is in; every iteration of a while loop is one step. *)

Locals ==
    [n |-> 0, q_val |-> 0, s |-> 0, z |-> 0, m |-> 0, c |-> 0, t |-> 0, r |-> 0,
     i |-> 0, tmp |-> 0, rounds |-> 0, ret |-> None]

InitShanks ==
    /\ HarnessIdle
    /\ stage = "called"
    /\ out = Locals
    /\ \E p \in SqrtPrimes : \E n \in (0 - p)..(2 * p) : arg = [fn |-> "steps", n |-> n, p |-> p]

\* lines 71-86: the direct branches return, the Tonelli-Shanks branch starts
\* factoring p - 1
Enter ==
    /\ stage = "called"
    /\ LET n == arg.n % arg.p
           p == arg.p
       IN  IF n = 0 THEN
                stage' = "returned" /\ out' = [out EXCEPT !.n = n, !.ret = Some(0)]
           ELSE IF PowMod(n, (p - 1) \div 2, p) /= 1 THEN
                stage' = "returned" /\ out' = [out EXCEPT !.n = n, !.ret = Some(None)]
           ELSE IF p % 4 = 3 THEN
                stage' = "returned" /\ out' = [out EXCEPT !.n = n, !.ret = Some(sqrt_3mod4(n, p))]
           ELSE IF p % 8 = 5 THEN
                stage' = "returned" /\ out' = [out EXCEPT !.n = n, !.ret = Some(sqrt_5mod8(n, p))]
           ELSE stage' = "factor" /\ out' = [out EXCEPT !.n = n, !.q_val = p - 1, !.s = 0]
    /\ UNCHANGED <<arg, harnessVars>>

\* while q_val % 2 == 0: q_val //= 2; s += 1          then z = 2
Factor ==
    /\ stage = "factor"
    /\ IF out.q_val % 2 = 0
       THEN /\ out' = [out EXCEPT !.q_val = @ \div 2, !.s = @ + 1]
            /\ stage' = "factor"
       ELSE /\ out' = [out EXCEPT !.z = 2]
            /\ stage' = "find_z"
    /\ UNCHANGED <<arg, harnessVars>>

\* while pow(z, (p - 1) // 2, p) != p - 1: z += 1      then line 94
FindZ ==
    /\ stage = "find_z"
    /\ IF PowMod(out.z, (arg.p - 1) \div 2, arg.p) /= arg.p - 1
       THEN /\ out.z < 2 * arg.p
            /\ out' = [out EXCEPT !.z = @ + 1]
            /\ stage' = "find_z"
       ELSE /\ out' = [out EXCEPT !.m = out.s,
                                  !.c = PowMod(out.z, out.q_val, arg.p),
                                  !.t = PowMod(out.n, out.q_val, arg.p),
                                  !.r = PowMod(out.n, (out.q_val + 1) \div 2, arg.p)]
            /\ stage' = "outer"
    /\ UNCHANGED <<arg, harnessVars>>

\* while True: if t == 1: return r; i = 1; tmp = (t * t) % p
Outer ==
    /\ stage = "outer"
    /\ IF out.t = 1
       THEN /\ out' = [out EXCEPT !.ret = Some(out.r)]
            /\ stage' = "returned"
       ELSE /\ out' = [out EXCEPT !.i = 1, !.tmp = (out.t * out.t) % arg.p]
            /\ stage' = "inner"
    /\ UNCHANGED <<arg, harnessVars>>

\* while tmp != 1: tmp = (tmp * tmp) % p; i += 1
Inner ==
    /\ stage = "inner"
    /\ IF out.tmp /= 1
       THEN /\ out.i < 2 * arg.p
            /\ out' = [out EXCEPT !.tmp = (out.tmp * out.tmp) % arg.p, !.i = @ + 1]
            /\ stage' = "inner"
       ELSE /\ out' = out
            /\ stage' = "shift"
    /\ UNCHANGED <<arg, harnessVars>>

\* A variant of the update of m that keeps m
ts_next_m_kept(m, i) == m

\* m, c, t, r = i, ...
ts_next_m(m, i) == i

\* b = pow(c, 1 << (m - i - 1), p); m, c, t, r = i, b*b % p, t*b*b % p, r*b % p
\* (1 << k raises ValueError for a negative k)
Shift ==
    /\ stage = "shift"
    /\ out.rounds < 2 * arg.p
    /\ IF out.m - out.i - 1 < 0
       THEN /\ out' = [out EXCEPT !.ret = ValueError]
            /\ stage' = "raised"
       ELSE LET b == PowMod(out.c, Shl1(out.m - out.i - 1), arg.p)
            IN  /\ out' = [out EXCEPT !.m = ts_next_m(out.m, out.i),
                                      !.c = (b * b) % arg.p,
                                      !.t = (out.t * b * b) % arg.p,
                                      !.r = (out.r * b) % arg.p,
                                      !.rounds = @ + 1]
                /\ stage' = "outer"
    /\ UNCHANGED <<arg, harnessVars>>

NextShanks == Enter \/ Factor \/ FindZ \/ Outer \/ Inner \/ Shift

\* The call runs on until it returns: no step of it waits for anything
SpecShanks == InitShanks /\ [][NextShanks]_vars /\ WF_vars(NextShanks)

\* C25: mod_sqrt terminates for every integer n and every odd prime p: the
\* call returns; in the Tonelli-Shanks branch the search for z ends at a
\* non-residue, the squaring loop ends with i < m, so the shift exponent
\* m - i - 1 is never negative, and m strictly decreases on every iteration
\* of the outer loop.
C25_ModSqrtTerminates ==
    /\ <>(stage = "returned")
    /\ [](stage /= "raised")
    /\ [](stage = "outer" => PowMod(out.z, (arg.p - 1) \div 2, arg.p) = arg.p - 1)
    /\ [](stage = "shift" => out.i < out.m /\ out.m - out.i - 1 >= 0)
    /\ [][stage = "shift" => out'.m < out.m]_vars

\* A Tonelli-Shanks call that went twice round the outer loop, past a search
\* for z that had to skip a residue, and returned a root.
C25_Witness ==
    /\ stage = "returned" /\ arg.fn = "steps"
    /\ arg.p % 8 = 1
    /\ out.rounds >= 2
    /\ out.z > 2
    /\ out.ret = mod_sqrt(arg.n, arg.p)

\* C26: every vector the harness examines contributes at least one increment
\* to the tally: the check of a vector that ends without an exception has made
\* at least one ok, fail or skip call and the counters grew by as much; so does
\* the check of a high_degree_poly_mul vector whose degree matches and whose
\* eval_checks list is empty or absent.
C26_EveryVectorCounts ==
    (last /= NoVector /\ last.section /= "main" /\ last.raised = None) =>
        /\ Len(last.verdicts) >= 1
        /\ passed + failed + skipped
             >= last.before.passed + last.before.failed + last.before.skipped + 1

RECURSIVE IntPow(_, _)
IntPow(x, k) == IF k = 0 THEN 1 ELSE x * IntPow(x, k - 1)

\* coeffs[0]*x^0 + ... + coeffs[n-1]*x^(n-1), the code's index i at position i + 1
RECURSIVE PowerSum(_, _, _)
PowerSum(coeffs, x, i) ==
    IF i > Len(coeffs) THEN 0
    ELSE coeffs[i] * IntPow(x, i - 1) + PowerSum(coeffs, x, i + 1)

\* C27: poly_eval, Horner's rule from the highest-degree coefficient down,
\* returns the sum of coeffs[i] * x^i reduced mod M for every coefficient
\* sequence and every x, a value in [0, M), and 0 for the empty sequence.
C27_HornerIsPowerSum ==
    (stage = "value" /\ arg.fn = "eval") =>
        /\ out[1] = PowerSum(arg.coeffs, arg.x, 1) % arg.M
        /\ out[1] \in 0..(arg.M - 1)
        /\ arg.coeffs = <<>> => out[1] = 0

\* An evaluation of three coefficients, one negative and one equal to M, at a
\* negative x, with a non-zero value.
C27_Witness ==
    /\ stage = "value" /\ arg.fn = "eval"
    /\ Len(arg.coeffs) = 3
    /\ arg.coeffs[1] = arg.M /\ arg.coeffs[2] < 0 /\ arg.coeffs[3] > 1
    /\ arg.x < 0
    /\ out[1] /= 0

----------------------------------------------------------------------------
(* validate_point_section: the msm and pedersen_commit recomputations *)

MaxTerms == 2        \* most (scalar, point) pairs of an msm or a commitment

\* for i in range(n): result = curve.add_point(result, curve.mul_point(scalars[i], points[i]))
RECURSIVE sum_loop(_, _, _, _, _, _)
sum_loop(scalars, points, n, c, i, result) ==
    IF i > n THEN result
    ELSE sum_loop(scalars, points, n, c, i + 1,
                  add_point(result, mul_point(scalars[i], points[i], c), c))

\* msm: result = Point.infinity(), then the loop
msm_actual(n, scalars, points, c) == sum_loop(scalars, points, n, c, 1, Infinity)

\* A variant of the commitment that leaves the blinding term out
pedersen_actual_unblinded(blinding, H, n, values, generators, c) ==
    sum_loop(values, generators, n, c, 1, Infinity)

\* pedersen_commit: result = curve.mul_point(blinding, H), then the loop
pedersen_actual(blinding, H, n, values, generators, c) ==
    sum_loop(values, generators, n, c, 1, mul_point(blinding, H, c))

\* The curves of the document
DocumentCurves ==
    {[M |-> d.P, a |-> d.A, b |-> d.helios_b] : d \in Documents}
        \cup {[M |-> d.Q, a |-> d.A, b |-> d.selene_b] : d \in Documents}

\* The identity, a generator, and two encodings each of which decodes on one
\* of the curves only
CommitPoints == {ZeroBytes, HeliosGen, to_le_hex(1), to_le_hex(4)}
CommitScalars == {to_le_hex(0), to_le_hex(1), to_le_hex(3)}
Perms(n) == {f \in [1..n -> 1..n] : \A i, j \in 1..n : f[i] = f[j] => i = j}

InitCommit ==
    /\ HarnessIdle
    /\ stage = "input"
    /\ out = <<>>
    /\ \E c \in DocumentCurves : \E n \in 0..MaxTerms :
         \E values \in [1..n -> CommitScalars], generators \in [1..n -> CommitPoints] :
           \E blinding \in {to_le_hex(1), to_le_hex(3)}, H \in {HeliosGen, to_le_hex(4)} :
             arg = [fn |-> "commit", curve |-> c, n |-> n, values |-> values,
                    generators |-> generators, blinding |-> blinding, H |-> H]

\* The points of a vector: [decode(p) for p in v["points"]]
DecodeList(hexes, c) == [i \in 1..Len(hexes) |-> decode(hexes[i], c.M, c.a, c.b)]

\* The msm and the commitment of the vector, as the two loops compute them
Recompute ==
    /\ stage = "input" /\ arg.fn = "commit"
    /\ out' = [msm |-> msm_actual(arg.n, IntList(arg.values),
                                  DecodeList(arg.generators, arg.curve), arg.curve),
               commit |-> pedersen_actual(from_le_hex(arg.blinding),
                                          decode(arg.H, arg.curve.M, arg.curve.a, arg.curve.b),
                                          arg.n, IntList(arg.values),
                                          DecodeList(arg.generators, arg.curve), arg.curve)]
    /\ stage' = "recomputed"
    /\ UNCHANGED <<arg, harnessVars>>

\* The same two recomputations of the vector with its pairs in another order
RecomputePermuted ==
    /\ stage = "recomputed"
    /\ \E pi \in Perms(arg.n) :
         LET values == [i \in 1..arg.n |-> from_le_hex(arg.values[pi[i]])]
             generators == [i \in 1..arg.n |->
                              decode(arg.generators[pi[i]], arg.curve.M, arg.curve.a, arg.curve.b)]
         IN  out' = [msm |-> out.msm, commit |-> out.commit, pi |-> pi,
                     msm_permuted |-> msm_actual(arg.n, values, generators, arg.curve),
                     commit_permuted |->
                         pedersen_actual(from_le_hex(arg.blinding),
                                         decode(arg.H, arg.curve.M, arg.curve.a, arg.curve.b),
                                         arg.n, values, generators, arg.curve)]
    /\ stage' = "permuted"
    /\ UNCHANGED <<arg, harnessVars>>

NextCommit == Recompute \/ RecomputePermuted

SpecCommit == InitCommit /\ [][NextCommit]_vars

\* blinding * H of the vector in hand
BlindingTerm ==
    mul_point(from_le_hex(arg.blinding),
              decode(arg.H, arg.curve.M, arg.curve.a, arg.curve.b), arg.curve)

\* C28: the pedersen_commit recomputation equals
\* add(scalar_mul(blinding, H), msm(values, generators)); the msm is the
\* identity for n = 0 (the commitment then being blinding * H) and otherwise
\* the msm of the first n - 1 pairs plus the last term; and neither result
\* changes when the (scalar, point) pairs are permuted.
C28_CommitIsBlindingPlusMsm ==
    (stage \in {"recomputed", "permuted"} /\ arg.fn = "commit") =>
        /\ out.commit = add_point(BlindingTerm, out.msm, arg.curve)
        /\ arg.n = 0 => (out.msm = Infinity /\ out.commit = BlindingTerm)
        /\ arg.n > 0 =>
             out.msm = add_point(msm_actual(arg.n - 1, IntList(arg.values),
                                            DecodeList(arg.generators, arg.curve), arg.curve),
                                 mul_point(from_le_hex(arg.values[arg.n]),
                                           decode(arg.generators[arg.n], arg.curve.M,
                                                  arg.curve.a, arg.curve.b),
                                           arg.curve),
                                 arg.curve)
        /\ stage = "permuted" =>
             /\ out.msm_permuted = out.msm
             /\ out.commit_permuted = out.commit

\* Two different non-trivial terms swapped, with a commitment that is neither
\* the identity nor the msm nor the blinding term.
C28_Witness ==
    /\ stage = "permuted" /\ arg.fn = "commit"
    /\ arg.n = 2 /\ out.pi = <<2, 1>>
    /\ arg.values[1] /= arg.values[2]
    /\ arg.generators[1] /= arg.generators[2]
    /\ ~out.msm.is_infinity
    /\ ~out.commit.is_infinity
    /\ out.commit /= out.msm
    /\ out.commit /= BlindingTerm
    /\ out.commit_permuted = out.commit

====
